---------------------------- MODULE Spec2Model ----------------------------
(***************************************************************************)
(* Change Risk & Quality Analysis Engine of github_tools.py.               *)
(*                                                                         *)
(* Python strings that the code inspects character by character (file      *)
(* names, patch text, patch lines) are sequences of one-character strings. *)
(* Values the code only compares as wholes (file-type tags, risk tiers,    *)
(* dictionary keys) are TLA+ strings.                                      *)
(***************************************************************************)
EXTENDS Integers, Sequences, FiniteSets, TLC

VARIABLES
    filename,        \* analyze_file_diff: argument filename
    patch,           \* analyze_file_diff: argument patch (None when absent)
    analysis,        \* analyze_file_diff: returned dictionary (NoResult before the call)
    file_type_in,    \* assess_change_risk: argument file_type
    changes_in,      \* assess_change_risk: argument changes
    risk_out,        \* assess_change_risk: returned tier (NoResult before the call)
    risk_in,         \* calculate_pr_risk called alone: argument file_analyses
    pr_risk_out,     \* calculate_pr_risk called alone: returned tier
    files,           \* change set under analysis: the files iterated so far (filename, patch)
    file_analyses,   \* change set under analysis: the per-file records so far
    aggregate,       \* change-set aggregate of file_analyses (NoResult before it is computed)
    summary_in,      \* generate_pr_summary called alone: argument file_analyses
    summary_out,     \* generate_pr_summary called alone: returned summary
    loop_lines,      \* analyze_file_diff step by step: the lines the loop has still to visit
    loop_line_num,   \* analyze_file_diff step by step: current_line_num
    loop_changes,    \* analyze_file_diff step by step: the dictionary changes
    github_client,   \* the module's global _github_client (None or a client)
    client_calls,    \* the calls made on the client functions, with their outcomes
    pulls,           \* get_recent_github_merged_prs: the stream get_pulls returns
    pulls_taken,     \* get_recent_github_merged_prs: the pull requests the loop has taken
    recent_prs,      \* get_recent_github_merged_prs: the records so far
    commits,         \* get_recent_github_commits: the stream get_commits returns
    commit_count,    \* get_recent_github_commits: the counter of the loop
    recent_commits,  \* get_recent_github_commits: the records so far
    file_list,       \* the files of the pull request or commit in hand the loop has left
    returned,        \* the list the caller returned (empty before it returns)
    pc               \* position of the caller

summaryVars == <<summary_in, summary_out>>
walkVars == <<loop_lines, loop_line_num, loop_changes>>
clientVars == <<github_client, client_calls>>
callerVars == <<pulls, pulls_taken, recent_prs, commits, commit_count, recent_commits,
                file_list, returned>>

vars == <<filename, patch, analysis, file_type_in, changes_in, risk_out,
          risk_in, pr_risk_out, files, file_analyses, aggregate,
          summaryVars, walkVars, clientVars, callerVars, pc>>

\* Python's None, for a string-valued argument (comparable with every character sequence).
None == <<"None">>
\* The value of a result variable before the call has returned.
NoResult == "no-result"

(***************************************************************************)
(* Python str operations on character sequences.                           *)
(***************************************************************************)
UpperCase == <<"A","B","C","D","E","F","G","H","I","J","K","L","M",
               "N","O","P","Q","R","S","T","U","V","W","X","Y","Z">>
LowerCase == <<"a","b","c","d","e","f","g","h","i","j","k","l","m",
               "n","o","p","q","r","s","t","u","v","w","x","y","z">>
Digits == <<"0","1","2","3","4","5","6","7","8","9">>

Range(s) == {s[i] : i \in DOMAIN s}

UpperSet == Range(UpperCase)
LowerSet == Range(LowerCase)
DigitSet == Range(Digits)

\* str.lower() of one character.
LowerOf == [c \in UpperSet |-> LowerCase[CHOOSE i \in DOMAIN UpperCase : UpperCase[i] = c]]
LowerChar(c) == IF c \in UpperSet THEN LowerOf[c] ELSE c

\* str.lower()
Lower(s) == [i \in DOMAIN s |-> LowerChar(s[i])]

\* s.startswith(p)
StartsWith(s, p) == Len(s) >= Len(p) /\ SubSeq(s, 1, Len(p)) = p

\* p occurs in s at index i (1-based)
OccursAt(s, p, i) == i >= 1 /\ i + Len(p) - 1 <= Len(s) /\ SubSeq(s, i, i + Len(p) - 1) = p

\* p in s
Contains(s, p) == \E i \in 1..(Len(s) - Len(p) + 1) : OccursAt(s, p, i)

\* regex classes \s, \w and \d over the characters of the model
IsSpace(c) == c \in {" ", "\t", "\n", "\r"}
IsDigit(c) == c \in DigitSet
IsWord(c) == c \in UpperSet \/ c \in LowerSet \/ c \in DigitSet \/ c = "_"

\* str.strip()
RECURSIVE LStrip(_)
LStrip(s) == IF s # <<>> /\ IsSpace(Head(s)) THEN LStrip(Tail(s)) ELSE s
RECURSIVE RStrip(_)
RStrip(s) == IF s # <<>> /\ IsSpace(s[Len(s)]) THEN RStrip(SubSeq(s, 1, Len(s) - 1)) ELSE s
Strip(s) == RStrip(LStrip(s))

\* s.split(sep) for a one-character separator: always at least one piece
RECURSIVE Split(_, _)
Split(s, sep) ==
    IF \A i \in DOMAIN s : s[i] # sep
    THEN <<s>>
    ELSE LET k == CHOOSE i \in DOMAIN s : s[i] = sep /\ \A j \in 1..(i - 1) : s[j] # sep
         IN  <<SubSeq(s, 1, k - 1)>> \o Split(SubSeq(s, k + 1, Len(s)), sep)

\* sep.join(parts)
RECURSIVE Join(_, _)
Join(parts, sep) ==
    IF parts = <<>> THEN <<>>
    ELSE IF Len(parts) = 1 THEN parts[1]
    ELSE parts[1] \o sep \o Join(Tail(parts), sep)

\* int(digits) for a non-empty sequence of decimal digits
DigitValue(c) == (CHOOSE i \in DOMAIN Digits : Digits[i] = c) - 1
RECURSIVE ParseInt(_)
ParseInt(ds) ==
    IF ds = <<>> THEN 0
    ELSE 10 * ParseInt(SubSeq(ds, 1, Len(ds) - 1)) + DigitValue(ds[Len(ds)])

\* length of the longest prefix of s, from index i on, whose characters satisfy a class
RECURSIVE RunOfWord(_, _)
RunOfWord(s, i) == IF i <= Len(s) /\ IsWord(s[i]) THEN 1 + RunOfWord(s, i + 1) ELSE 0
RECURSIVE RunOfSpace(_, _)
RunOfSpace(s, i) == IF i <= Len(s) /\ IsSpace(s[i]) THEN 1 + RunOfSpace(s, i + 1) ELSE 0
RECURSIVE RunOfDigit(_, _)
RunOfDigit(s, i) == IF i <= Len(s) /\ IsDigit(s[i]) THEN 1 + RunOfDigit(s, i + 1) ELSE 0

(***************************************************************************)
(* String literals of the source.                                          *)
(***************************************************************************)
str_dockerfile == <<"d","o","c","k","e","r","f","i","l","e">>
str_makefile == <<"m","a","k","e","f","i","l","e">>
str_makefile_am == <<"m","a","k","e","f","i","l","e",".","a","m">>
str_makefile_in == <<"m","a","k","e","f","i","l","e",".","i","n">>
str_requirements_txt == <<"r","e","q","u","i","r","e","m","e","n","t","s",".","t","x","t">>
str_package_json == <<"p","a","c","k","a","g","e",".","j","s","o","n">>
str_cargo_toml == <<"c","a","r","g","o",".","t","o","m","l">>
str_pom_xml == <<"p","o","m",".","x","m","l">>
str_config == <<"c","o","n","f","i","g">>
str_docker_compose == <<"d","o","c","k","e","r","-","c","o","m","p","o","s","e">>
str_dot_env == <<".","e","n","v">>
str_settings == <<"s","e","t","t","i","n","g","s">>
str_test == <<"t","e","s","t">>
str_readme == <<"r","e","a","d","m","e">>
str_doc == <<"d","o","c">>
str_performance == <<"p","e","r","f","o","r","m","a","n","c","e">>
str_cache == <<"c","a","c","h","e">>
str_password == <<"p","a","s","s","w","o","r","d">>
str_secret == <<"s","e","c","r","e","t">>
str_key == <<"k","e","y">>
str_token == <<"t","o","k","e","n">>
str_delete == <<"d","e","l","e","t","e">>
str_drop == <<"d","r","o","p">>
str_truncate == <<"t","r","u","n","c","a","t","e">>
str_sudo == <<"s","u","d","o">>
str_chmod == <<"c","h","m","o","d">>
str_chown == <<"c","h","o","w","n">>
str_eval == <<"e","v","a","l">>
str_exec == <<"e","x","e","c">>
str_system == <<"s","y","s","t","e","m">>
str_localhost == <<"l","o","c","a","l","h","o","s","t">>
str_def == <<"d","e","f">>
str_function == <<"f","u","n","c","t","i","o","n">>
str_const == <<"c","o","n","s","t">>
str_loopback == <<"1","2","7",".","0",".","0",".","1">>
str_http_url == <<"h","t","t","p",":","/","/">>
str_https_url == <<"h","t","t","p","s",":","/","/">>
str_import_sp == <<"i","m","p","o","r","t"," ">>
str_from_sp == <<"f","r","o","m"," ">>
str_require_paren == <<"r","e","q","u","i","r","e","(">>
str_arrow == <<"=",">">>
str_ellipsis == <<".",".",".">>
str_hunk == <<"@","@">>
str_plus3 == <<"+","+","+">>
str_minus3 == <<"-","-","-">>

(***************************************************************************)
(* get_file_type                                                           *)
(***************************************************************************)
\* filename.split('.')[-1].lower() if '.' in filename else ''
Extension(fname) ==
    IF Contains(fname, <<".">>)
    THEN LET parts == Split(fname, ".") IN Lower(parts[Len(parts)])
    ELSE <<>>

type_mapping ==
    (<<"p","y">> :> "python") @@ (<<"j","s">> :> "javascript") @@
    (<<"t","s">> :> "typescript") @@ (<<"j","s","x">> :> "react") @@
    (<<"t","s","x">> :> "react") @@ (<<"j","a","v","a">> :> "java") @@
    (<<"g","o">> :> "go") @@ (<<"r","s">> :> "rust") @@
    (<<"c","p","p">> :> "cpp") @@ (<<"c">> :> "c") @@
    (<<"y","m","l">> :> "yaml") @@ (<<"y","a","m","l">> :> "yaml") @@
    (<<"j","s","o","n">> :> "json") @@ (<<"x","m","l">> :> "xml") @@
    (<<"s","q","l">> :> "sql") @@ (<<"s","h">> :> "shell") @@
    (str_dockerfile :> "docker") @@ (<<"t","f">> :> "terraform") @@
    (<<"m","d">> :> "markdown")

config_extensions == {<<"c","o","n","f">>, <<"c","f","g">>, <<"i","n","i">>, <<"e","n","v">>}

\* the default of type_mapping.get as a tag outside the closed set
get_file_type_other(fname) ==
    LET ext == Extension(fname)
        low == Lower(fname)
    IN  IF Contains(low, str_dockerfile) THEN "docker"
        ELSE IF low \in {str_makefile, str_makefile_am, str_makefile_in} THEN "makefile"
        ELSE IF low \in {str_requirements_txt, str_package_json, str_cargo_toml, str_pom_xml}
             THEN "dependency"
        ELSE IF Contains(low, str_config) \/ ext \in config_extensions THEN "config"
        ELSE IF ext \in DOMAIN type_mapping THEN type_mapping[ext]
        ELSE "other"

\* the extension table consulted before the config rule
get_file_type_table_first(fname) ==
    LET ext == Extension(fname)
        low == Lower(fname)
    IN  IF Contains(low, str_dockerfile) THEN "docker"
        ELSE IF low \in {str_makefile, str_makefile_am, str_makefile_in} THEN "makefile"
        ELSE IF low \in {str_requirements_txt, str_package_json, str_cargo_toml, str_pom_xml}
             THEN "dependency"
        ELSE IF ext \in DOMAIN type_mapping THEN type_mapping[ext]
        ELSE IF Contains(low, str_config) \/ ext \in config_extensions THEN "config"
        ELSE "unknown"

get_file_type(fname) ==
    LET ext == Extension(fname)
        low == Lower(fname)
    IN  IF Contains(low, str_dockerfile) THEN "docker"
        ELSE IF low \in {str_makefile, str_makefile_am, str_makefile_in} THEN "makefile"
        ELSE IF low \in {str_requirements_txt, str_package_json, str_cargo_toml, str_pom_xml}
             THEN "dependency"
        ELSE IF Contains(low, str_config) \/ ext \in config_extensions THEN "config"
        ELSE IF ext \in DOMAIN type_mapping THEN type_mapping[ext]
        ELSE "unknown"

(***************************************************************************)
(* Python dict access.  A dict with string keys is a TLA+ record (a        *)
(* function on strings); the empty dict is the function with empty domain. *)
(***************************************************************************)
EmptyDict == <<>>

\* d.get(key, default)
Get(d, key, default) == IF key \in DOMAIN d THEN d[key] ELSE default

\* if key in d: d[key].append(x)
AppendIfKey(d, key, x) ==
    IF key \in DOMAIN d THEN [d EXCEPT ![key] = Append(@, x)] ELSE d

(***************************************************************************)
(* analyze_line_content: the regular expressions                           *)
(***************************************************************************)
\* re.match(r'def\s+\w+\s*\(', s)
MatchPyDef(s) ==
    /\ StartsWith(s, str_def)
    /\ LET sp == RunOfSpace(s, 4)
           w == RunOfWord(s, 4 + sp)
           sp2 == RunOfSpace(s, 4 + sp + w)
           p == 4 + sp + w + sp2
       IN  sp >= 1 /\ w >= 1 /\ p <= Len(s) /\ s[p] = "("

\* re.search(r'def\s+(\w+)', s).group(1), for s that MatchPyDef accepts
PyDefName(s) ==
    LET sp == RunOfSpace(s, 4)
        w == RunOfWord(s, 4 + sp)
    IN  SubSeq(s, 4 + sp, 4 + sp + w - 1)

\* re.match(r'(function\s+\w+|const\s+\w+\s*=.*=>|\w+\s*:\s*function)', s)
MatchJsFunction(s) ==
    \/ /\ StartsWith(s, str_function)
       /\ LET sp == RunOfSpace(s, 9)
          IN  sp >= 1 /\ RunOfWord(s, 9 + sp) >= 1
    \/ /\ StartsWith(s, str_const)
       /\ LET sp == RunOfSpace(s, 6)
              w == RunOfWord(s, 6 + sp)
              sp2 == RunOfSpace(s, 6 + sp + w)
              p == 6 + sp + w + sp2
          IN  /\ sp >= 1 /\ w >= 1 /\ p <= Len(s) /\ s[p] = "="
              /\ \E j \in (p + 1)..Len(s) : OccursAt(s, str_arrow, j)
    \/ LET w == RunOfWord(s, 1)
           sp == RunOfSpace(s, 1 + w)
           p == 1 + w + sp
           sp2 == RunOfSpace(s, p + 1)
       IN  /\ w >= 1 /\ p <= Len(s) /\ s[p] = ":"
           /\ OccursAt(s, str_function, p + 1 + sp2)

\* The list critical_patterns: the regex source, its alternatives (literal
\* words), and whether the alternation stands between \b anchors.
critical_patterns == <<
    [pattern |-> "\\b(password|secret|key|token)\\b",
     alternatives |-> {str_password, str_secret, str_key, str_token}, word_bounded |-> TRUE],
    [pattern |-> "\\b(delete|drop|truncate)\\b",
     alternatives |-> {str_delete, str_drop, str_truncate}, word_bounded |-> TRUE],
    [pattern |-> "\\b(sudo|chmod|chown)\\b",
     alternatives |-> {str_sudo, str_chmod, str_chown}, word_bounded |-> TRUE],
    [pattern |-> "\\b(eval|exec|system)\\b",
     alternatives |-> {str_eval, str_exec, str_system}, word_bounded |-> TRUE],
    [pattern |-> "(http|https)://.*",
     alternatives |-> {str_http_url, str_https_url}, word_bounded |-> FALSE],
    [pattern |-> "\\b(localhost|127\\.0\\.0\\.1)\\b",
     alternatives |-> {str_localhost, str_loopback}, word_bounded |-> TRUE] >>

\* \b holds between s[i-1] and s[i] (either may lie outside s)
WordBoundary(s, i) ==
    LET before == i - 1 >= 1 /\ i - 1 <= Len(s) /\ IsWord(s[i - 1])
        after == i >= 1 /\ i <= Len(s) /\ IsWord(s[i])
    IN  before # after

\* re.search(pattern, s) without re.IGNORECASE
SearchCritical_case_sensitive(p, s) ==
    \E alt \in p.alternatives : \E i \in 1..(Len(s) - Len(alt) + 1) :
        /\ OccursAt(s, alt, i)
        /\ p.word_bounded => WordBoundary(s, i) /\ WordBoundary(s, i + Len(alt))

\* re.search(pattern, s, re.IGNORECASE) finds a match
SearchCritical(p, s) ==
    LET low == Lower(s)
    IN  \E alt \in p.alternatives : \E i \in 1..(Len(s) - Len(alt) + 1) :
            /\ OccursAt(low, alt, i)
            /\ p.word_bounded => WordBoundary(s, i) /\ WordBoundary(s, i + Len(alt))

(***************************************************************************)
(* analyze_line_content(line, changes, change_type, file_type): the        *)
(* dictionary changes after the call (the code updates it in place).       *)
(***************************************************************************)
\* line_stripped[:50] + '...' if len(line_stripped) > 50 else line_stripped
Truncate50(s) == IF Len(s) > 50 THEN SubSeq(s, 1, 50) \o str_ellipsis ELSE s

\* configuration changes recorded for added lines only
analyze_line_content_added_only(line, changes, change_type, file_type) ==
    LET line_stripped == Strip(line)
        functions_key == "functions_" \o change_type
        imports_key == "imports_" \o change_type
        \* Function definitions and import statements
        c1 == IF file_type = "python"
              THEN LET f == IF MatchPyDef(line_stripped)
                            THEN AppendIfKey(changes, functions_key, PyDefName(line_stripped))
                            ELSE changes
                   IN  IF StartsWith(line_stripped, str_import_sp)
                          \/ StartsWith(line_stripped, str_from_sp)
                       THEN AppendIfKey(f, imports_key, line_stripped)
                       ELSE f
              ELSE IF file_type \in {"javascript", "typescript"}
              THEN LET f == IF MatchJsFunction(line_stripped)
                            THEN AppendIfKey(changes, functions_key, Truncate50(line_stripped))
                            ELSE changes
                   IN  IF StartsWith(line_stripped, str_import_sp)
                          \/ StartsWith(line_stripped, str_require_paren)
                       THEN AppendIfKey(f, imports_key, line_stripped)
                       ELSE f
              ELSE changes
        \* Critical patterns (all languages), in the order of the list
        hits == SelectSeq(critical_patterns, LAMBDA p : SearchCritical(p, line_stripped))
        c2 == [c1 EXCEPT !["critical_patterns"] =
                  @ \o [i \in 1..Len(hits) |->
                          [pattern |-> hits[i].pattern, line |-> line_stripped,
                           type |-> change_type]]]
        \* Configuration changes
    IN  IF change_type = "added"
           /\ (file_type \in {"yaml", "json", "config"} \/ "config" \in DOMAIN changes)
        THEN [c2 EXCEPT !["config_changes"] =
                 Append(@, [type |-> change_type, content |-> line_stripped])]
        ELSE c2

\* removed definitions recorded in the bucket functions_modified
analyze_line_content_modified_bucket(line, changes, change_type, file_type) ==
    LET line_stripped == Strip(line)
        functions_key == IF change_type = "removed" THEN "functions_modified"
                         ELSE "functions_added"
        imports_key == "imports_" \o change_type
        \* Function definitions and import statements
        c1 == IF file_type = "python"
              THEN LET f == IF MatchPyDef(line_stripped)
                            THEN AppendIfKey(changes, functions_key, PyDefName(line_stripped))
                            ELSE changes
                   IN  IF StartsWith(line_stripped, str_import_sp)
                          \/ StartsWith(line_stripped, str_from_sp)
                       THEN AppendIfKey(f, imports_key, line_stripped)
                       ELSE f
              ELSE IF file_type \in {"javascript", "typescript"}
              THEN LET f == IF MatchJsFunction(line_stripped)
                            THEN AppendIfKey(changes, functions_key, Truncate50(line_stripped))
                            ELSE changes
                   IN  IF StartsWith(line_stripped, str_import_sp)
                          \/ StartsWith(line_stripped, str_require_paren)
                       THEN AppendIfKey(f, imports_key, line_stripped)
                       ELSE f
              ELSE changes
        \* Critical patterns (all languages), in the order of the list
        hits == SelectSeq(critical_patterns, LAMBDA p : SearchCritical(p, line_stripped))
        c2 == [c1 EXCEPT !["critical_patterns"] =
                  @ \o [i \in 1..Len(hits) |->
                          [pattern |-> hits[i].pattern, line |-> line_stripped,
                           type |-> change_type]]]
        \* Configuration changes
    IN  IF file_type \in {"yaml", "json", "config"} \/ "config" \in DOMAIN changes
        THEN [c2 EXCEPT !["config_changes"] =
                 Append(@, [type |-> change_type, content |-> line_stripped])]
        ELSE c2

analyze_line_content(line, changes, change_type, file_type) ==
    LET line_stripped == Strip(line)
        functions_key == "functions_" \o change_type
        imports_key == "imports_" \o change_type
        \* Function definitions and import statements
        c1 == IF file_type = "python"
              THEN LET f == IF MatchPyDef(line_stripped)
                            THEN AppendIfKey(changes, functions_key, PyDefName(line_stripped))
                            ELSE changes
                   IN  IF StartsWith(line_stripped, str_import_sp)
                          \/ StartsWith(line_stripped, str_from_sp)
                       THEN AppendIfKey(f, imports_key, line_stripped)
                       ELSE f
              ELSE IF file_type \in {"javascript", "typescript"}
              THEN LET f == IF MatchJsFunction(line_stripped)
                            THEN AppendIfKey(changes, functions_key, Truncate50(line_stripped))
                            ELSE changes
                   IN  IF StartsWith(line_stripped, str_import_sp)
                          \/ StartsWith(line_stripped, str_require_paren)
                       THEN AppendIfKey(f, imports_key, line_stripped)
                       ELSE f
              ELSE changes
        \* Critical patterns (all languages), in the order of the list
        hits == SelectSeq(critical_patterns, LAMBDA p : SearchCritical(p, line_stripped))
        c2 == [c1 EXCEPT !["critical_patterns"] =
                  @ \o [i \in 1..Len(hits) |->
                          [pattern |-> hits[i].pattern, line |-> line_stripped,
                           type |-> change_type]]]
        \* Configuration changes
    IN  IF file_type \in {"yaml", "json", "config"} \/ "config" \in DOMAIN changes
        THEN [c2 EXCEPT !["config_changes"] =
                 Append(@, [type |-> change_type, content |-> line_stripped])]
        ELSE c2

(***************************************************************************)
(* assess_change_risk                                                      *)
(***************************************************************************)
\* the list without 'dockerfile'
high_risk_files_without_dockerfile ==
    <<str_docker_compose, str_requirements_txt,
      str_package_json, str_makefile, str_dot_env, str_config, str_settings>>

high_risk_files == <<str_dockerfile, str_docker_compose, str_requirements_txt,
                     str_package_json, str_makefile, str_dot_env, str_config, str_settings>>

\* Python truthiness of a list
Truthy(list) == list # <<>>

risk_score(changes, file_type, fname) ==
      (IF file_type \in {"config", "yaml", "json", "docker", "terraform"} THEN 2 ELSE 0)
    + (IF \E i \in DOMAIN high_risk_files : Contains(Lower(fname), high_risk_files[i])
       THEN 2 ELSE 0)
    + (IF Truthy(Get(changes, "functions_added", <<>>))
          \/ Truthy(Get(changes, "functions_modified", <<>>)) THEN 1 ELSE 0)
    + (IF Truthy(Get(changes, "imports_added", <<>>))
          \/ Truthy(Get(changes, "imports_removed", <<>>)) THEN 1 ELSE 0)
    + (IF Truthy(Get(changes, "critical_patterns", <<>>)) THEN 3 ELSE 0)
    + (IF Truthy(Get(changes, "config_changes", <<>>)) THEN 2 ELSE 0)

\* the thresholds with > in place of >=
risk_tier_strict(score) ==
    IF score > 5 THEN "high" ELSE IF score > 3 THEN "medium" ELSE "low"

risk_tier(score) ==
    IF score >= 5 THEN "high" ELSE IF score >= 3 THEN "medium" ELSE "low"

assess_change_risk(changes, file_type, fname) ==
    risk_tier(risk_score(changes, file_type, fname))

(***************************************************************************)
(* generate_change_summary: the list summary_parts before '; '.join, each  *)
(* part as its template and the numbers formatted into it; the empty list  *)
(* gives the fixed sentence.                                               *)
(***************************************************************************)
generate_change_summary(changes, file_type) ==
    LET n(key) == Len(Get(changes, key, <<>>))
        part(key, text) == IF n(key) > 0 THEN <<[text |-> text, counts |-> <<n(key)>>]>>
                           ELSE <<>>
        parts == part("functions_added", "Added {} functions")
              \o part("functions_modified", "Modified {} functions")
              \o part("imports_added", "Added {} imports")
              \o part("imports_removed", "Removed {} imports")
              \o part("config_changes", "Modified configuration ({} changes)")
              \o part("critical_patterns", "Contains {} critical patterns")
              \o (IF n("lines_added") > 0 \/ n("lines_removed") > 0
                  THEN <<[text |-> "+{} -{} lines",
                          counts |-> <<n("lines_added"), n("lines_removed")>>]>>
                  ELSE <<>>)
    IN  IF parts # <<>> THEN parts
        ELSE <<[text |-> "No significant changes detected", counts |-> <<>>]>>

(***************************************************************************)
(* analyze_file_diff                                                       *)
(***************************************************************************)
\* the '+' of the rightmost match in place of the leftmost
HunkPlus_rightmost(line) ==
    LET hits == {i \in 1..(Len(line) - 1) : line[i] = "+" /\ IsDigit(line[i + 1])}
    IN  IF hits = {} THEN 0 ELSE CHOOSE i \in hits : \A j \in hits : i >= j

\* re.search(r'\+(\d+)', line): the index of the '+' of the leftmost match, 0 if none
HunkPlus(line) ==
    LET hits == {i \in 1..(Len(line) - 1) : line[i] = "+" /\ IsDigit(line[i + 1])}
    IN  IF hits = {} THEN 0 ELSE CHOOSE i \in hits : \A j \in hits : i <= j

\* int(match.group(1))
HunkNumber(line) ==
    LET i == HunkPlus(line)
    IN  ParseInt(SubSeq(line, i + 1, i + RunOfDigit(line, i + 1)))

\* one accumulator kept between calls: a call starts from the signals of the
\* previous record of the change set
initial_changes_shared ==
    IF file_analyses # <<>> /\ DOMAIN file_analyses[Len(file_analyses)].changes # {}
    THEN file_analyses[Len(file_analyses)].changes
    ELSE [lines_added |-> <<>>, lines_removed |-> <<>>,
          functions_added |-> <<>>, functions_modified |-> <<>>,
          imports_added |-> <<>>, imports_removed |-> <<>>,
          config_changes |-> <<>>, critical_patterns |-> <<>>]

initial_changes ==
    [lines_added |-> <<>>, lines_removed |-> <<>>,
     functions_added |-> <<>>, functions_modified |-> <<>>,
     imports_added |-> <<>>, imports_removed |-> <<>>,
     config_changes |-> <<>>, critical_patterns |-> <<>>]

\* line.startswith('+') and not line.startswith('+++'), with every '+' counted
is_added_line_with_markers(line) == StartsWith(line, <<"+">>)

\* line.startswith('+') and not line.startswith('+++')
is_added_line(line) == StartsWith(line, <<"+">>) /\ ~StartsWith(line, str_plus3)

\* line.startswith('-') and not line.startswith('---')
is_removed_line(line) == StartsWith(line, <<"-">>) /\ ~StartsWith(line, str_minus3)

\* a removed line advancing the running line number like an added one
walk_line_removed_advances(w, line, file_type) ==
    IF StartsWith(line, str_hunk)
    THEN IF HunkPlus(line) # 0
         THEN [w EXCEPT !.current_line_num = HunkNumber(line)]
         ELSE w
    ELSE IF is_added_line(line)
    THEN LET added_line == Tail(line)
             recorded == [w.changes EXCEPT !.lines_added =
                             Append(@, [line_num |-> w.current_line_num,
                                        content |-> added_line])]
         IN  [current_line_num |-> w.current_line_num + 1,
              changes |-> analyze_line_content(added_line, recorded, "added", file_type)]
    ELSE IF is_removed_line(line)
    THEN LET removed_line == Tail(line)
             recorded == [w.changes EXCEPT !.lines_removed =
                             Append(@, [line_num |-> w.current_line_num,
                                        content |-> removed_line])]
         IN  [current_line_num |-> w.current_line_num + 1,
              changes |-> analyze_line_content(removed_line, recorded, "removed", file_type)]
    ELSE IF ~StartsWith(line, <<"\\">>)
    THEN [w EXCEPT !.current_line_num = @ + 1]
    ELSE w

\* One iteration of "for line in lines": w is the pair (current_line_num, changes).
walk_line(w, line, file_type) ==
    IF StartsWith(line, str_hunk)
    THEN IF HunkPlus(line) # 0
         THEN [w EXCEPT !.current_line_num = HunkNumber(line)]
         ELSE w
    ELSE IF is_added_line(line)
    THEN LET added_line == Tail(line)
             recorded == [w.changes EXCEPT !.lines_added =
                             Append(@, [line_num |-> w.current_line_num,
                                        content |-> added_line])]
         IN  [current_line_num |-> w.current_line_num + 1,
              changes |-> analyze_line_content(added_line, recorded, "added", file_type)]
    ELSE IF is_removed_line(line)
    THEN LET removed_line == Tail(line)
             recorded == [w.changes EXCEPT !.lines_removed =
                             Append(@, [line_num |-> w.current_line_num,
                                        content |-> removed_line])]
         IN  [w EXCEPT !.changes =
                 analyze_line_content(removed_line, recorded, "removed", file_type)]
    ELSE IF ~StartsWith(line, <<"\\">>)
    THEN [w EXCEPT !.current_line_num = @ + 1]
    ELSE w

RECURSIVE walk_lines(_, _, _)
walk_lines(w, lines, file_type) ==
    IF lines = <<>> THEN w
    ELSE walk_lines(walk_line(w, Head(lines), file_type), Tail(lines), file_type)

\* "if patch is None" in place of "if not patch"
IsAbsent(p) == p = None

\* if not patch
Falsy(p) == p = None \/ p = <<>>

analyze_file_diff(fname, p) ==
    IF Falsy(p)
    THEN [filename |-> fname, file_type |-> get_file_type(fname),
          changes |-> EmptyDict, risk_level |-> "low"]
    ELSE LET file_type == get_file_type(fname)
             lines == Split(p, "\n")
             w == walk_lines([current_line_num |-> 0, changes |-> initial_changes],
                             lines, file_type)
         IN  [filename |-> fname, file_type |-> file_type, changes |-> w.changes,
              risk_level |-> assess_change_risk(w.changes, file_type, fname),
              summary |-> generate_change_summary(w.changes, file_type)]


(***************************************************************************)
(* calculate_pr_risk                                                       *)
(***************************************************************************)
\* the weights in reverse order
risk_scores_reversed == [low |-> 5, medium |-> 3, high |-> 1]

risk_scores == [low |-> 1, medium |-> 3, high |-> 5]

\* sum(risk_scores.get(analysis.get('risk_level', 'low'), 1) for analysis in file_analyses)
RECURSIVE total_score(_)
total_score(analyses) ==
    IF analyses = <<>> THEN 0
    ELSE Get(risk_scores, Get(Head(analyses), "risk_level", "low"), 1)
         + total_score(Tail(analyses))

\* the highest per-file level in place of the tier of the average
calculate_pr_risk_highest(analyses) ==
    IF \E i \in DOMAIN analyses : Get(analyses[i], "risk_level", "low") = "high"
    THEN "high"
    ELSE IF \E i \in DOMAIN analyses : Get(analyses[i], "risk_level", "low") = "medium"
    THEN "medium"
    ELSE "low"

\* avg_score = total_score / len(file_analyses) is compared with 4 and 2:
\* total/len >= k exactly when total >= k*len.
calculate_pr_risk(analyses) ==
    IF analyses = <<>> THEN "low"
    ELSE LET total == total_score(analyses)
             n == Len(analyses)
         IN  IF total >= 4 * n THEN "high"
             ELSE IF total >= 2 * n THEN "medium"
             ELSE "low"

(***************************************************************************)
(* Sums and counts over a list of file analyses.                           *)
(***************************************************************************)
RECURSIVE SumSeq(_)
SumSeq(ns) == IF ns = <<>> THEN 0 ELSE Head(ns) + SumSeq(Tail(ns))

\* sum(1 for ... if test): the number of TRUE entries of a list of booleans
CountTrue(bs) == SumSeq([i \in DOMAIN bs |-> IF bs[i] THEN 1 ELSE 0])

\* len(changes.get(key, []))
LenOf(changes, key) == Len(Get(changes, key, <<>>))

(***************************************************************************)
(* generate_pr_summary: the list summary_parts before '; '.join, each part *)
(* as its template and the values formatted into it.                       *)
(***************************************************************************)
\* file_types.items(): (type, count) pairs in order of first appearance
RECURSIVE file_type_items(_, _)
file_type_items(analyses, seen) ==
    IF analyses = <<>> THEN <<>>
    ELSE LET ft == Get(Head(analyses), "file_type", "unknown")
         IN  IF ft \in seen THEN file_type_items(Tail(analyses), seen)
             ELSE <<ft>> \o file_type_items(Tail(analyses), seen \cup {ft})

\* the items left in order of first appearance
sorted_by_count_unsorted(items) == items

\* sorted(items, key=count, reverse=True): stable, ties keep their order
RECURSIVE sorted_by_count(_)
sorted_by_count(items) ==
    IF items = <<>> THEN <<>>
    ELSE LET k == CHOOSE i \in DOMAIN items :
                      /\ \A j \in DOMAIN items : items[j].count <= items[i].count
                      /\ \A j \in 1..(i - 1) : items[j].count < items[i].count
         IN  <<items[k]>> \o sorted_by_count(SubSeq(items, 1, k - 1)
                                             \o SubSeq(items, k + 1, Len(items)))

generate_pr_summary(analyses) ==
    IF analyses = <<>> THEN <<[text |-> "No file analysis available", counts |-> <<>>]>>
    ELSE
    LET types == file_type_items(analyses, {})
        file_types == [k \in DOMAIN types |->
                          [ftype |-> types[k],
                           count |-> CountTrue([i \in DOMAIN analyses |->
                                         Get(analyses[i], "file_type", "unknown") = types[k]])]]
        high_risk == CountTrue([i \in DOMAIN analyses |-> Get(analyses[i], "risk_level", "none") = "high"])
        total_functions_changed ==
            SumSeq([i \in DOMAIN analyses |-> LenOf(Get(analyses[i], "changes", EmptyDict), "functions_added")
                                       + LenOf(Get(analyses[i], "changes", EmptyDict), "functions_modified")])
        total_imports_changed ==
            SumSeq([i \in DOMAIN analyses |-> LenOf(Get(analyses[i], "changes", EmptyDict), "imports_added")
                                       + LenOf(Get(analyses[i], "changes", EmptyDict), "imports_removed")])
        config_files_changed ==
            CountTrue([i \in DOMAIN analyses |-> 
                \/ Get(analyses[i], "file_type", "none") \in {"config", "yaml", "json"}
                \/ Contains(Lower(Get(analyses[i], "filename", <<>>)), str_config)])
        critical_patterns_found ==
            SumSeq([i \in DOMAIN analyses |-> LenOf(Get(analyses[i], "changes", EmptyDict), "critical_patterns")])
        sorted == sorted_by_count(file_types)
        top_types == SubSeq(sorted, 1, IF Len(sorted) < 3 THEN Len(sorted) ELSE 3)
        part(n, text) == IF n # 0 THEN <<[text |-> text, counts |-> <<n>>]>> ELSE <<>>
    IN     <<[text |-> "{} files changed", counts |-> <<Len(analyses)>>]>>
        \o (IF file_types # <<>> THEN <<[text |-> "Types: {}", types |-> top_types]>> ELSE <<>>)
        \o part(high_risk, "{} high-risk files")
        \o part(total_functions_changed, "{} functions changed")
        \o part(total_imports_changed, "{} imports changed")
        \o part(config_files_changed, "{} config files")
        \o part(critical_patterns_found, "{} critical patterns")

(***************************************************************************)
(* calculate_code_quality_metrics                                          *)
(*                                                                         *)
(* The code computes the two densities in floating point,                  *)
(* int(x / total_files * 20) and int(x / total_files * 50); for fewer than *)
(* 25 files these equal the integer quotients (x * 20) \div total_files    *)
(* and (x * 50) \div total_files used here, and the comparisons with       *)
(* total_files * 0.3, total_files * 0.2, 0.3 and 0.1 equal the integer     *)
(* comparisons below.                                                      *)
(***************************************************************************)
Min(a, b) == IF a <= b THEN a ELSE b
Max(a, b) == IF a >= b THEN a ELSE b

initial_metrics ==
    [complexity_score |-> 0, maintainability_score |-> 0, security_risk_score |-> 0,
     test_coverage_impact |-> "unknown", documentation_impact |-> "none",
     dependency_risk |-> "low", breaking_change_risk |-> "low",
     performance_impact |-> "low"]

\* the score taken as "higher is better", like maintainability
security_risk_score_inverted(security_issues, total_files) ==
    Max(0, 100 - (security_issues * 50) \div total_files)

\* min(100, int(security_issues / total_files * 50))
security_risk_score(security_issues, total_files) ==
    Min(100, (security_issues * 50) \div total_files)

\* int(complexity_factors / total_files * 20), the cap left out
complexity_score_uncapped(complexity_factors, total_files) ==
    (complexity_factors * 20) \div total_files

\* min(100, int(complexity_factors / total_files * 20))
complexity_score(complexity_factors, total_files) ==
    Min(100, (complexity_factors * 20) \div total_files)

\* the test "count >= 0" in place of "count > 0"
count_risk_from_zero(count) ==
    IF count >= 0 THEN (IF count > 2 THEN "high" ELSE "medium") ELSE "low"

\* 'medium' if count > 2 else 'high': the two tiers exchanged
count_risk_exchanged(count) ==
    IF count > 0 THEN (IF count > 2 THEN "medium" ELSE "high") ELSE "low"

\* 'high' if count > 2 else 'medium', when count > 0; else 'low'
count_risk(count) == IF count > 0 THEN (IF count > 2 THEN "high" ELSE "medium") ELSE "low"

calculate_code_quality_metrics(analyses) ==
    IF analyses = <<>> THEN initial_metrics
    ELSE
    LET total_files == Len(analyses)
        fname(a) == Get(a, "filename", <<>>)
        ftype(a) == Get(a, "file_type", "unknown")
        chg(a) == Get(a, "changes", EmptyDict)
        complexity_factors ==
            SumSeq([i \in DOMAIN analyses |-> 
                  (IF Truthy(Get(chg(analyses[i]), "functions_added", <<>>))
                      \/ Truthy(Get(chg(analyses[i]), "functions_modified", <<>>))
                   THEN LenOf(chg(analyses[i]), "functions_added") + LenOf(chg(analyses[i]), "functions_modified")
                   ELSE 0)
                + (IF Truthy(Get(chg(analyses[i]), "imports_added", <<>>))
                      \/ Truthy(Get(chg(analyses[i]), "imports_removed", <<>>))
                   THEN LenOf(chg(analyses[i]), "imports_added") + LenOf(chg(analyses[i]), "imports_removed")
                   ELSE 0)])
        security_issues == SumSeq([i \in DOMAIN analyses |-> LenOf(chg(analyses[i]), "critical_patterns")])
        config_changes ==
            CountTrue([i \in DOMAIN analyses |-> 
                ftype(analyses[i]) \in {"config", "yaml", "json"} \/ Contains(Lower(fname(analyses[i])), str_config)])
        test_files ==
            CountTrue([i \in DOMAIN analyses |-> 
                Contains(Lower(fname(analyses[i])), str_test) \/ ftype(analyses[i]) \in {"test", "spec"}])
        doc_files ==
            CountTrue([i \in DOMAIN analyses |-> 
                \/ ftype(analyses[i]) = "markdown"
                \/ Contains(Lower(fname(analyses[i])), str_readme)
                \/ Contains(Lower(fname(analyses[i])), str_doc)])
        dependency_files == CountTrue([i \in DOMAIN analyses |-> ftype(analyses[i]) = "dependency"])
        breaking_changes ==
            CountTrue([i \in DOMAIN analyses |-> 
                \/ Truthy(Get(chg(analyses[i]), "functions_removed", <<>>))
                \/ (ftype(analyses[i]) \in {"config", "yaml"} /\ Get(analyses[i], "risk_level", "none") = "high")])
        perf_impact_files ==
            CountTrue([i \in DOMAIN analyses |-> 
                \/ Get(analyses[i], "file_type", "none") \in {"config", "sql", "docker"}
                \/ Contains(Lower(fname(analyses[i])), str_performance)
                \/ Contains(Lower(fname(analyses[i])), str_cache)])
        \* complexity_per_file > 3
        maintainability ==
            100 - (IF complexity_factors > 3 * total_files THEN 30 ELSE 0)
                - (IF security_issues > 0 THEN 20 ELSE 0)
                - (IF 10 * config_changes > 3 * total_files THEN 15 ELSE 0)
    IN  [complexity_score |-> complexity_score(complexity_factors, total_files),
         maintainability_score |-> Max(0, maintainability),
         security_risk_score |-> security_risk_score(security_issues, total_files),
         test_coverage_impact |->
             IF test_files > 0
             THEN (IF 10 * test_files >= 3 * total_files THEN "improved"
                   ELSE IF 10 * test_files >= total_files THEN "maintained"
                   ELSE "minimal")
             ELSE "none",
         documentation_impact |-> IF doc_files > 0 THEN "updated" ELSE "none",
         dependency_risk |-> count_risk(dependency_files),
         breaking_change_risk |-> count_risk(breaking_changes),
         performance_impact |->
             IF 5 * perf_impact_files > total_files THEN "high"
             ELSE IF perf_impact_files > 0 THEN "medium"
             ELSE "low"]

(***************************************************************************)
(* generate_quality_report: the list report_parts before ' | '.join.       *)
(***************************************************************************)
generate_quality_report(metrics) ==
    LET complexity == Get(metrics, "complexity_score", 0)
        maintainability == Get(metrics, "maintainability_score", 100)
        security == Get(metrics, "security_risk_score", 0)
        test_impact == Get(metrics, "test_coverage_impact", "unknown")
        dep_risk == Get(metrics, "dependency_risk", "low")
        breaking_risk == Get(metrics, "breaking_change_risk", "low")
        perf_impact == Get(metrics, "performance_impact", "low")
    IN     <<[clause |-> "complexity",
              level |-> IF complexity >= 70 THEN "High"
                        ELSE IF complexity >= 40 THEN "Medium" ELSE "Low",
              value |-> complexity]>>
        \o <<[clause |-> "maintainability",
              level |-> IF maintainability >= 80 THEN "Good"
                        ELSE IF maintainability >= 60 THEN "Fair" ELSE "Poor",
              value |-> maintainability]>>
        \o <<[clause |-> "security risk",
              level |-> IF security >= 50 THEN "High"
                        ELSE IF security >= 20 THEN "Medium" ELSE "Low",
              value |-> security]>>
        \o (IF test_impact # "none"
            THEN <<[clause |-> "Tests", level |-> test_impact]>> ELSE <<>>)
        \o (IF dep_risk # "low"
            THEN <<[clause |-> "Dependencies", level |-> dep_risk]>> ELSE <<>>)
        \o (IF breaking_risk # "low"
            THEN <<[clause |-> "Breaking changes", level |-> breaking_risk]>> ELSE <<>>)
        \o (IF perf_impact # "low"
            THEN <<[clause |-> "Performance impact", level |-> perf_impact]>> ELSE <<>>)


(***************************************************************************)
(* Inputs.                                                                 *)
(***************************************************************************)
\* File names the hosting API reports.
fn_Dockerfile == <<"D","o","c","k","e","r","f","i","l","e">>
fn_app_yaml == <<"a","p","p",".","y","a","m","l">>
fn_utils_py == <<"u","t","i","l","s",".","p","y">>
fn_config_json == <<"c","o","n","f","i","g",".","j","s","o","n">>
fn_requirements_txt == <<"r","e","q","u","i","r","e","m","e","n","t","s",".","t","x","t">>
fn_src_Makefile == <<"s","r","c","/","M","a","k","e","f","i","l","e">>
fn_Makefile == <<"M","a","k","e","f","i","l","e">>
fn_main_tf == <<"m","a","i","n",".","t","f">>
fn_test_app_js == <<"t","e","s","t","_","a","p","p",".","j","s">>
fn_README_md == <<"R","E","A","D","M","E",".","m","d">>
fn_query_sql == <<"q","u","e","r","y",".","s","q","l">>
fn_App_tsx == <<"A","p","p",".","t","s","x">>
fn_settings_ini == <<"s","e","t","t","i","n","g","s",".","i","n","i">>
fn_lib_package_json == <<"l","i","b","/","p","a","c","k","a","g","e",".","j","s","o","n">>
fn_dot_env == <<".","e","n","v">>
fn_cache_go == <<"c","a","c","h","e",".","g","o">>
fn_LICENSE == <<"L","I","C","E","N","S","E">>
fn_docker_compose_yml == <<"d","o","c","k","e","r","-","c","o","m","p","o","s","e",".","y","m","l">>
fn_config_Dockerfile == <<"c","o","n","f","i","g","/","D","o","c","k","e","r","f","i","l","e">>
Filenames ==
    {fn_Dockerfile, fn_app_yaml, fn_utils_py, fn_config_json, fn_requirements_txt,
     fn_src_Makefile, fn_Makefile, fn_main_tf, fn_test_app_js, fn_README_md,
     fn_query_sql, fn_App_tsx, fn_settings_ini, fn_lib_package_json, fn_dot_env,
     fn_cache_go, fn_LICENSE, fn_docker_compose_yml,
     fn_config_Dockerfile}

\* Lines of unified-diff text.
ln_hunk == <<"@","@"," ","-","1",",","3"," ","+","5",",","4"," ","@","@">>
ln_hunk_bad == <<"@","@"," ","b","a","d"," ","@","@">>
ln_file_new == <<"+","+","+"," ","b","/","x">>
ln_file_old == <<"-","-","-"," ","a","/","x">>
ln_no_newline == <<"\\"," ","N","o"," ","n","e","w","l","i","n","e">>
ln_context == <<" ","c","t","x">>
ln_empty == <<>>
ln_add_def == <<"+","d","e","f"," ","f","(","x",")",":">>
ln_del_def == <<"-","d","e","f"," ","g","(",")",":">>
ln_add_import == <<"+","i","m","p","o","r","t"," ","o","s">>
ln_del_from == <<"-","f","r","o","m"," ","a"," ","i","m","p","o","r","t"," ","b">>
ln_add_SUDO == <<"+","S","U","D","O"," ","r","m"," ","-","r","f">>
ln_add_sudo == <<"+","s","u","d","o"," ","r","m"," ","-","r","f">>
ln_add_const == <<"+","c","o","n","s","t"," ","f"," ","="," ","(",")"," ","=",">"," ","1">>
ln_add_env == <<"+","e","n","v",":"," ","p","r","o","d","u","c","t","i","o","n">>
ln_del_env == <<"-","e","n","v",":"," ","s","t","a","g","i","n","g">>
ln_add_secret == <<"+","p","a","s","s","w","o","r","d"," ","="," ","e","v","a","l","(","x",")">>
ln_del_url == <<"-","u"," ","="," ","h","t","t","p",":","/","/","l","o","c","a","l","h","o","s","t">>
ln_add_plain == <<"+","x"," ","="," ","1">>
ln_add_keys == <<"+","k","e","y","s"," ","="," ","m","o","n","k","e","y">>
ln_hunk_sudo == <<"@","@"," ","+"," ","+","3"," ","s","u","d","o"," ","+","7"," ","@","@">>
PatchLines ==
    {ln_hunk, ln_hunk_bad, ln_file_new, ln_file_old, ln_no_newline, ln_context,
     ln_empty, ln_add_def, ln_del_def, ln_add_import, ln_del_from, ln_add_SUDO,
     ln_add_sudo, ln_add_const, ln_add_env, ln_del_env, ln_add_secret, ln_del_url,
     ln_add_plain, ln_add_keys, ln_hunk_sudo}

\* The longest patch of SpecFile, in lines.
MaxPatchLines == 2

\* Patch texts: absent, or up to MaxPatchLines lines joined by newlines
\* (no line gives the empty text).
Patches ==
    {None} \cup
    {Join(ls, <<"\n">>) : ls \in UNION {[1..n -> PatchLines] : n \in 0..MaxPatchLines}}

(***************************************************************************)
(* SpecFile: one call of analyze_file_diff(filename, patch).               *)
(***************************************************************************)
IdleFile == filename = <<>> /\ patch = None /\ analysis = NoResult
IdleRisk == file_type_in = NoResult /\ changes_in = EmptyDict /\ risk_out = NoResult
IdlePr == risk_in = <<>> /\ pr_risk_out = NoResult
IdleChangeSet == files = <<>> /\ file_analyses = <<>> /\ aggregate = NoResult
IdleSummary == summary_in = <<>> /\ summary_out = NoResult
IdleWalk == loop_lines = <<>> /\ loop_line_num = 0 /\ loop_changes = EmptyDict
IdleClient == github_client = None /\ client_calls = <<>>
IdleCallers ==
    /\ pulls = <<>> /\ pulls_taken = 0 /\ recent_prs = <<>>
    /\ commits = <<>> /\ commit_count = 0 /\ recent_commits = <<>>
    /\ file_list = <<>> /\ returned = <<>>
IdleOthers == IdleSummary /\ IdleWalk /\ IdleClient /\ IdleCallers

\* The file names analysed with every patch text; the others get the
\* absent and the empty patch.
PatchedFilenames ==
    {fn_Dockerfile, fn_app_yaml, fn_utils_py, fn_config_json, fn_requirements_txt,
     fn_test_app_js, fn_App_tsx, fn_LICENSE}

InitFile ==
    /\ pc = "file:call"
    /\ \/ filename \in PatchedFilenames /\ patch \in Patches
       \/ filename \in Filenames /\ patch \in {None, <<>>}
    /\ analysis = NoResult
    /\ file_type_in = NoResult /\ changes_in = EmptyDict /\ risk_out = NoResult
    /\ IdlePr /\ IdleChangeSet /\ IdleOthers

CallAnalyzeFileDiff ==
    /\ pc = "file:call"
    /\ analysis' = analyze_file_diff(filename, patch)
    /\ pc' = "file:done"
    /\ UNCHANGED <<files, filename, patch, file_type_in, changes_in, risk_out,
                   risk_in, pr_risk_out, file_analyses, aggregate>>
    /\ UNCHANGED <<summaryVars, walkVars, clientVars, callerVars>>

NextFile == CallAnalyzeFileDiff

SpecFile == InitFile /\ [][NextFile]_vars


(***************************************************************************)
(* SpecRisk: one call of assess_change_risk(changes, file_type, filename)  *)
(* on any signals, file type and file name.                                *)
(***************************************************************************)
FileTypes ==
    {"python", "javascript", "typescript", "react", "java", "go", "rust", "cpp", "c",
     "yaml", "json", "xml", "sql", "shell", "docker", "terraform", "markdown",
     "makefile", "dependency", "config", "unknown"}

\* Signal dictionaries: each list that assess_change_risk reads is empty or holds one entry.
RiskChanges ==
    [lines_added : {<<>>}, lines_removed : {<<>>},
     functions_added : {<<>>, << <<"f">> >>},
     functions_modified : {<<>>, << <<"g">> >>},
     imports_added : {<<>>, << <<"i","m","p","o","r","t"," ","o","s">> >>},
     imports_removed : {<<>>, << <<"f","r","o","m"," ","a"," ","i","m","p","o","r","t"," ","b">> >>},
     config_changes : {<<>>, <<[type |-> "added", content |-> <<"a",":"," ","1">>]>>},
     critical_patterns : {<<>>, <<[pattern |-> critical_patterns[3].pattern,
                                   line |-> <<"s","u","d","o">>, type |-> "added"]>>}]

InitRisk ==
    /\ pc = "risk:call"
    /\ filename \in Filenames
    /\ file_type_in \in FileTypes
    /\ changes_in \in RiskChanges
    /\ risk_out = NoResult
    /\ patch = None /\ analysis = NoResult
    /\ IdlePr /\ IdleChangeSet /\ IdleOthers

CallAssessChangeRisk ==
    /\ pc = "risk:call"
    /\ risk_out' = assess_change_risk(changes_in, file_type_in, filename)
    /\ pc' = "risk:done"
    /\ UNCHANGED <<files, filename, patch, analysis, file_type_in, changes_in,
                   risk_in, pr_risk_out, file_analyses, aggregate>>
    /\ UNCHANGED <<summaryVars, walkVars, clientVars, callerVars>>

NextRisk == CallAssessChangeRisk

SpecRisk == InitRisk /\ [][NextRisk]_vars

(***************************************************************************)
(* SpecPR: calculate_pr_risk(file_analyses) on any list of per-file        *)
(* records, called again after a high-risk record of the list has been     *)
(* duplicated.  Of a record calculate_pr_risk reads only 'risk_level'.     *)
(***************************************************************************)
\* The longest list SpecPR starts from.
MaxRiskFiles == 5

RiskRecords ==
    {[risk_level |-> "low"], [risk_level |-> "medium"], [risk_level |-> "high"],
     [risk_level |-> "critical"], [filename |-> fn_LICENSE]}

InitPr ==
    /\ pc = "pr:call"
    /\ risk_in \in UNION {[1..n -> RiskRecords] : n \in 0..MaxRiskFiles}
    /\ pr_risk_out = NoResult
    /\ IdleFile /\ IdleRisk /\ IdleChangeSet /\ IdleOthers

CallCalculatePrRisk ==
    /\ pc = "pr:call"
    /\ pr_risk_out' = calculate_pr_risk(risk_in)
    /\ pc' = "pr:done"
    /\ UNCHANGED <<files, filename, patch, analysis, file_type_in, changes_in, risk_out,
                   risk_in, file_analyses, aggregate>>
    /\ UNCHANGED <<summaryVars, walkVars, clientVars, callerVars>>

DuplicateHighRiskFile ==
    /\ pc = "pr:done"
    /\ Len(risk_in) <= MaxRiskFiles
    /\ \E i \in DOMAIN risk_in :
          /\ Get(risk_in[i], "risk_level", "low") = "high"
          /\ risk_in' = Append(risk_in, risk_in[i])
    /\ pr_risk_out' = calculate_pr_risk(risk_in')
    /\ UNCHANGED <<files, filename, patch, analysis, file_type_in, changes_in, risk_out,
                   file_analyses, aggregate, pc>>
    /\ UNCHANGED <<summaryVars, walkVars, clientVars, callerVars>>

NextPr == CallCalculatePrRisk \/ DuplicateHighRiskFile

SpecPR == InitPr /\ [][NextPr]_vars

(***************************************************************************)
(* Spec: a caller analyses the files of one change set (a pull request or  *)
(* a commit) one by one and then aggregates the records, as the loops of   *)
(* get_recent_github_merged_prs and get_recent_github_commits do.          *)
(***************************************************************************)
\* The most files of a change set.
MaxFiles == 3

pt_function_import == Join(<<ln_hunk, ln_add_def, ln_add_import>>, <<"\n">>)
pt_six_imports ==
    Join(<<ln_add_import, ln_add_import, ln_add_import,
           ln_add_import, ln_add_import, ln_add_import>>, <<"\n">>)
pt_env == Join(<<ln_add_env, ln_del_env>>, <<"\n">>)
pt_secrets == Join(<<ln_add_secret, ln_del_url>>, <<"\n">>)

\* The (filename, patch) pairs the hosting API can report for a file.
ChangeSetFiles ==
    {[filename |-> fn_utils_py, patch |-> pt_function_import],
     [filename |-> fn_utils_py, patch |-> pt_six_imports],
     [filename |-> fn_Dockerfile, patch |-> ln_add_SUDO],
     [filename |-> fn_app_yaml, patch |-> pt_env],
     [filename |-> fn_config_json, patch |-> pt_secrets],
     [filename |-> fn_requirements_txt, patch |-> None],
     [filename |-> fn_test_app_js, patch |-> <<>>],
     [filename |-> fn_query_sql, patch |-> ln_context],
     [filename |-> fn_README_md, patch |-> None],
     [filename |-> fn_LICENSE, patch |-> None],
     [filename |-> fn_utils_py, patch |-> ln_del_def]}

Init ==
    /\ pc = "collect"
    /\ files = <<>>
    /\ file_analyses = <<>>
    /\ aggregate = NoResult
    /\ IdleFile /\ IdleRisk /\ IdlePr /\ IdleOthers

\* for file in files: file_analyses.append(analyze_file_diff(file.filename, file.patch))
AnalyzeFile ==
    /\ pc = "collect"
    /\ Len(file_analyses) < MaxFiles
    /\ \E file \in ChangeSetFiles :
          /\ files' = Append(files, file)
          /\ file_analyses' = Append(file_analyses,
                                     analyze_file_diff(file.filename, file.patch))
    /\ UNCHANGED <<filename, patch, analysis, file_type_in, changes_in, risk_out,
                   risk_in, pr_risk_out, aggregate, pc>>
    /\ UNCHANGED <<summaryVars, walkVars, clientVars, callerVars>>

\* overall_risk, quality_metrics, change_summary and quality_report of the record
AnalyzeChangeSet ==
    /\ pc = "collect"
    /\ LET quality_metrics == calculate_code_quality_metrics(file_analyses)
       IN  aggregate' = [overall_risk |-> calculate_pr_risk(file_analyses),
                         change_summary |-> generate_pr_summary(file_analyses),
                         quality_metrics |-> quality_metrics,
                         quality_report |-> generate_quality_report(quality_metrics)]
    /\ pc' = "aggregated"
    /\ UNCHANGED <<files, filename, patch, analysis, file_type_in, changes_in, risk_out,
                   risk_in, pr_risk_out, file_analyses>>
    /\ UNCHANGED <<summaryVars, walkVars, clientVars, callerVars>>

Next == AnalyzeFile \/ AnalyzeChangeSet

Spec == Init /\ [][Next]_vars

(***************************************************************************)
(* SpecSummary: generate_pr_summary(file_analyses) on any list of records  *)
(* that analyze_file_diff returns.                                         *)
(***************************************************************************)
\* The longest list SpecSummary starts from.
MaxSummaryFiles == 4

\* Records of six file types, with and without signals.
SummaryRecords ==
    {analyze_file_diff(fn_utils_py, pt_function_import),
     analyze_file_diff(fn_Dockerfile, ln_add_SUDO),
     analyze_file_diff(fn_app_yaml, pt_env),
     analyze_file_diff(fn_config_json, pt_secrets),
     analyze_file_diff(fn_README_md, None),
     analyze_file_diff(fn_query_sql, ln_context)}

InitSummary ==
    /\ pc = "summary:call"
    /\ summary_in \in UNION {[1..n -> SummaryRecords] : n \in 0..MaxSummaryFiles}
    /\ summary_out = NoResult
    /\ IdleFile /\ IdleRisk /\ IdlePr /\ IdleChangeSet
    /\ IdleWalk /\ IdleClient /\ IdleCallers

CallGeneratePrSummary ==
    /\ pc = "summary:call"
    /\ summary_out' = generate_pr_summary(summary_in)
    /\ pc' = "summary:done"
    /\ UNCHANGED <<filename, patch, analysis, file_type_in, changes_in, risk_out,
                   risk_in, pr_risk_out, files, file_analyses, aggregate, summary_in>>
    /\ UNCHANGED <<walkVars, clientVars, callerVars>>

NextSummary == CallGeneratePrSummary

SpecSummary == InitSummary /\ [][NextSummary]_vars

(***************************************************************************)
(* SpecWalk: analyze_file_diff(filename, patch) line by line: the call,    *)
(* one step per iteration of "for line in lines", and the return.          *)
(***************************************************************************)
\* The longest patch of SpecWalk, in lines.
MaxWalkLines == 4

WalkLines == {ln_hunk, ln_hunk_bad, ln_add_plain, ln_del_env, ln_no_newline, ln_context}

WalkPatches ==
    {None} \cup
    {Join(ls, <<"\n">>) : ls \in UNION {[1..n -> WalkLines] : n \in 0..MaxWalkLines}}

InitWalk ==
    /\ pc = "walk:call"
    /\ filename \in {fn_utils_py, fn_app_yaml}
    /\ patch \in WalkPatches
    /\ analysis = NoResult
    /\ IdleRisk /\ IdlePr /\ IdleChangeSet
    /\ IdleSummary /\ IdleWalk /\ IdleClient /\ IdleCallers

\* lines 51-72: the fast path, or the set-up of the loop
EnterAnalyzeFileDiff ==
    /\ pc = "walk:call"
    /\ IF Falsy(patch)
       THEN /\ analysis' = [filename |-> filename, file_type |-> get_file_type(filename),
                            changes |-> EmptyDict, risk_level |-> "low"]
            /\ pc' = "walk:done"
            /\ UNCHANGED walkVars
       ELSE /\ loop_lines' = Split(patch, "\n")
            /\ loop_line_num' = 0
            /\ loop_changes' = initial_changes
            /\ pc' = "walk:loop"
            /\ UNCHANGED analysis
    /\ UNCHANGED <<filename, patch, file_type_in, changes_in, risk_out,
                   risk_in, pr_risk_out, files, file_analyses, aggregate>>
    /\ UNCHANGED <<summaryVars, clientVars, callerVars>>

\* lines 74-105: one iteration of the loop
WalkLine ==
    /\ pc = "walk:loop"
    /\ loop_lines # <<>>
    /\ LET w == walk_line([current_line_num |-> loop_line_num, changes |-> loop_changes],
                          Head(loop_lines), get_file_type(filename))
       IN  /\ loop_line_num' = w.current_line_num
           /\ loop_changes' = w.changes
    /\ loop_lines' = Tail(loop_lines)
    /\ UNCHANGED <<filename, patch, analysis, file_type_in, changes_in, risk_out,
                   risk_in, pr_risk_out, files, file_analyses, aggregate, pc>>
    /\ UNCHANGED <<summaryVars, clientVars, callerVars>>

\* lines 107-116: the risk level, the summary and the return
ReturnAnalysis ==
    /\ pc = "walk:loop"
    /\ loop_lines = <<>>
    /\ LET file_type == get_file_type(filename)
       IN  analysis' = [filename |-> filename, file_type |-> file_type,
                        changes |-> loop_changes,
                        risk_level |-> assess_change_risk(loop_changes, file_type, filename),
                        summary |-> generate_change_summary(loop_changes, file_type)]
    /\ pc' = "walk:done"
    /\ UNCHANGED <<filename, patch, file_type_in, changes_in, risk_out,
                   risk_in, pr_risk_out, files, file_analyses, aggregate>>
    /\ UNCHANGED <<summaryVars, walkVars, clientVars, callerVars>>

NextWalk == EnterAnalyzeFileDiff \/ WalkLine \/ ReturnAnalysis

SpecWalk == InitWalk /\ [][NextWalk]_vars

(***************************************************************************)
(* SpecClient: any sequence of calls of init_github_client,                *)
(* get_github_client and close_github_client on the module's global        *)
(* _github_client.  client_calls keeps, per call, its name, its outcome    *)
(* (what it returned, or the exception it raised) and the value of the     *)
(* global after it.                                                        *)
(***************************************************************************)
\* The most calls of one behaviour.
MaxClientCalls == 4

\* Tokens: absent, empty and a non-empty one.
Tokens == {None, <<>>, <<"g","h","p","_","x">>}

\* Github(auth=auth): a new client object, told apart by the number of the call.
NewClient == <<"Github", Len(client_calls) + 1>>

InitClient ==
    /\ pc = "client"
    /\ github_client = None
    /\ client_calls = <<>>
    /\ IdleFile /\ IdleRisk /\ IdlePr /\ IdleChangeSet
    /\ IdleSummary /\ IdleWalk /\ IdleCallers

\* the global left set by a call of close_github_client
close_github_client_keeps_client ==
    /\ pc = "client"
    /\ Len(client_calls) < MaxClientCalls
    /\ UNCHANGED github_client
    /\ client_calls' = Append(client_calls,
           [call |-> "close", outcome |-> "returned", result |-> None,
            client_after |-> github_client'])
    /\ UNCHANGED <<filename, patch, analysis, file_type_in, changes_in, risk_out,
                   risk_in, pr_risk_out, files, file_analyses, aggregate, pc>>
    /\ UNCHANGED <<summaryVars, walkVars, callerVars>>

\* init_github_client(token): connects tells whether the connection test succeeds
init_github_client ==
    /\ pc = "client"
    /\ Len(client_calls) < MaxClientCalls
    /\ \E token \in Tokens, connects \in BOOLEAN :
          IF Falsy(token)
          THEN /\ connects
               /\ UNCHANGED github_client
               /\ client_calls' = Append(client_calls,
                      [call |-> "init", token |-> token, connects |-> connects,
                       outcome |-> "ValueError", result |-> None,
                       client_after |-> github_client])
          ELSE /\ github_client' = NewClient
               /\ client_calls' = Append(client_calls,
                      [call |-> "init", token |-> token, connects |-> connects,
                       outcome |-> "returned", result |-> None,
                       client_after |-> NewClient])
    /\ UNCHANGED <<filename, patch, analysis, file_type_in, changes_in, risk_out,
                   risk_in, pr_risk_out, files, file_analyses, aggregate, pc>>
    /\ UNCHANGED <<summaryVars, walkVars, callerVars>>

get_github_client ==
    /\ pc = "client"
    /\ Len(client_calls) < MaxClientCalls
    /\ client_calls' = Append(client_calls,
           IF github_client = None
           THEN [call |-> "get", outcome |-> "RuntimeError", result |-> None,
                 client_after |-> github_client]
           ELSE [call |-> "get", outcome |-> "returned", result |-> github_client,
                 client_after |-> github_client])
    /\ UNCHANGED github_client
    /\ UNCHANGED <<filename, patch, analysis, file_type_in, changes_in, risk_out,
                   risk_in, pr_risk_out, files, file_analyses, aggregate, pc>>
    /\ UNCHANGED <<summaryVars, walkVars, callerVars>>

close_github_client ==
    /\ pc = "client"
    /\ Len(client_calls) < MaxClientCalls
    /\ github_client' = None
    /\ client_calls' = Append(client_calls,
           [call |-> "close", outcome |-> "returned", result |-> None,
            client_after |-> github_client'])
    /\ UNCHANGED <<filename, patch, analysis, file_type_in, changes_in, risk_out,
                   risk_in, pr_risk_out, files, file_analyses, aggregate, pc>>
    /\ UNCHANGED <<summaryVars, walkVars, callerVars>>

NextClient == init_github_client \/ get_github_client \/ close_github_client

SpecClient == InitClient /\ [][NextClient]_vars

(***************************************************************************)
(* SpecCallers: get_recent_github_commits and get_recent_github_merged_prs *)
(* step by step, on a stream of commits or of closed pull requests chosen  *)
(* at the start.  A file of a commit or pull request is a (filename,       *)
(* patch) pair with a flag telling whether reading it raises; the fields   *)
(* that file_analysis.update adds are read by no aggregate and are left    *)
(* out.                                                                    *)
(***************************************************************************)
\* The longest finite commit stream.
MaxCommits == 12
\* The longest commit stream built from every kind of commit.
MaxShortCommits == 2
\* The longest stream of pull requests.
MaxPulls == 3

CallerFile(fn, p) == [filename |-> fn, patch |-> p, raises |-> FALSE]
RaisingFile(fn, p) == [filename |-> fn, patch |-> p, raises |-> TRUE]
file_utils == CallerFile(fn_utils_py, pt_function_import)
file_docker == CallerFile(fn_Dockerfile, ln_add_SUDO)
file_yaml == CallerFile(fn_app_yaml, pt_env)
file_json == CallerFile(fn_config_json, pt_secrets)
file_readme == CallerFile(fn_README_md, None)

\* The kinds of commit: listing tells whether reading commit.files raises
\* ("ok", "raises once": the first read only, "raises": every read).
commit_no_files == [listing |-> "ok", files |-> <<>>]
commit_one_file == [listing |-> "ok", files |-> <<file_utils>>]
commit_second_raises ==
    [listing |-> "ok", files |-> <<file_yaml, RaisingFile(fn_Dockerfile, ln_add_SUDO)>>]
commit_four_files ==
    [listing |-> "ok", files |-> <<file_docker, file_json, file_readme, file_utils>>]
commit_fourth_raises ==
    [listing |-> "ok",
     files |-> <<file_readme, file_utils, file_yaml,
                 RaisingFile(fn_config_json, pt_secrets), file_docker>>]
commit_listing_raises_once == [listing |-> "raises once", files |-> <<file_json>>]
commit_listing_raises == [listing |-> "raises", files |-> <<file_docker>>]

CommitKinds ==
    {commit_no_files, commit_one_file, commit_second_raises, commit_four_files,
     commit_fourth_raises, commit_listing_raises_once, commit_listing_raises}

\* The commits a long stream repeats.
CommitCycle ==
    <<commit_one_file, commit_four_files, commit_second_raises, commit_no_files,
      commit_fourth_raises, commit_listing_raises_once>>

CycleOf(n) == [i \in 1..n |-> CommitCycle[((i - 1) % Len(CommitCycle)) + 1]]

\* The streams get_commits can return: every short stream, the long ones up
\* to MaxCommits, and one that never ends.
CommitStreams ==
    {[items |-> s, endless |-> FALSE] :
        s \in UNION {[1..n -> CommitKinds] : n \in 0..MaxShortCommits}}
    \cup {[items |-> CycleOf(n), endless |-> FALSE] : n \in (MaxShortCommits + 1)..MaxCommits}
    \cup {[items |-> CommitCycle, endless |-> TRUE]}

\* for commit in commits: whether the iterator has a commit after the first n
HasCommitAfter(stream, n) == stream.endless \/ n < Len(stream.items)

\* the n-th commit of the stream
CommitAt(stream, n) == stream.items[((n - 1) % Len(stream.items)) + 1]

\* since_time, the start of the window (datetime.now - hours), as a number
since_time == 10

\* merged_at of a pull request: <<>> for None, <<t>> for the time t.
MergedAts == {<<>>, <<since_time - 1>>, <<since_time>>}
UpdatedAts == {since_time - 1, since_time}

\* The files pr.get_files() yields, by the number of the pull request.
PullFiles(number) ==
    CASE number % 3 = 1 -> <<file_utils, file_docker>>
      [] number % 3 = 2 -> <<file_yaml, RaisingFile(fn_config_json, pt_secrets), file_readme>>
      [] OTHER -> <<>>

\* The streams get_pulls can return, in any order of their times; raises
\* tells whether fetching past the last pull request raises.
PullStreams ==
    {[items |-> [i \in 1..n |-> [number |-> i, merged_at |-> m[i], updated_at |-> u[i],
                                  files |-> PullFiles(i)]],
      raises |-> r] :
        <<n, m, u, r>> \in
            UNION {{<<k, mm, uu, rr>> : mm \in [1..k -> MergedAts],
                                        uu \in [1..k -> UpdatedAts],
                                        rr \in BOOLEAN} : k \in 0..MaxPulls}}

\* The start of get_recent_github_commits.
InitCommits ==
    /\ pc = "commits:call"
    /\ github_client \in {None, <<"Github", 1>>}
    /\ client_calls = <<>>
    /\ commits \in CommitStreams /\ pulls = <<>>
    /\ pulls_taken = 0 /\ recent_prs = <<>>
    /\ commit_count = 0 /\ recent_commits = <<>>
    /\ file_list = <<>> /\ returned = <<>>
    /\ files = <<>> /\ file_analyses = <<>> /\ aggregate = EmptyDict
    /\ IdleFile /\ IdleRisk /\ IdlePr /\ IdleSummary /\ IdleWalk

\* The start of either caller.
InitCallers ==
    /\ pc \in {"commits:call", "prs:call"}
    /\ github_client \in {None, <<"Github", 1>>}
    /\ client_calls = <<>>
    /\ IF pc = "commits:call"
       THEN commits \in CommitStreams /\ pulls = <<>>
       ELSE pulls \in PullStreams /\ commits = <<>>
    /\ pulls_taken = 0 /\ recent_prs = <<>>
    /\ commit_count = 0 /\ recent_commits = <<>>
    /\ file_list = <<>> /\ returned = <<>>
    /\ files = <<>> /\ file_analyses = <<>> /\ aggregate = EmptyDict
    /\ IdleFile /\ IdleRisk /\ IdlePr /\ IdleSummary /\ IdleWalk

\* the variables no step of the callers changes
callerFrame ==
    <<filename, patch, analysis, file_type_in, changes_in, risk_out, risk_in,
      pr_risk_out, files, summaryVars, walkVars, clientVars, pulls, commits>>

\* max_commits = 10
max_commits_eleven == 10 + 1

max_commits == 10

\* list(commit.files)[:3]
first_files(commit_files) == SubSeq(commit_files, 1, Min(3, Len(commit_files)))

\* for file in file_list: the loop has no file left to visit
files_exhausted_after_one(list, analyses) == list = <<>> \/ Len(analyses) >= 1

files_exhausted(list, analyses) == list = <<>>

\* if pr.merged_at and pr.merged_at >= since_time
merged_in_window(pr) == Truthy(pr.merged_at) /\ pr.merged_at[1] >= since_time

\* elif pr.updated_at < since_time: break
stops_scan_never(pr) == FALSE

stops_scan(pr) == pr.updated_at < since_time

(* Each step of get_recent_github_commits is written in two parts: its     *)
(* control, which is its guard and what it does to the position (pc, the   *)
(* counter of the loop and the files the inner loop has left), and what it *)
(* assigns to the data.                                                    *)

\* the position of get_recent_github_commits
commitsControl == <<pc, commit_count, file_list>>

\* get_recent_github_commits up to the loop: without a client, or without
\* a repository to read, it returns the empty list.
CallCommitsControl ==
    /\ pc = "commits:call"
    /\ \E repository_known \in BOOLEAN :
          pc' = IF github_client = None \/ ~repository_known
                THEN "commits:done" ELSE "commits:next"
    /\ commit_count' = 0
    /\ UNCHANGED file_list

CallCommits ==
    /\ CallCommitsControl
    /\ IF pc' = "commits:done"
       THEN returned' = <<>> /\ UNCHANGED recent_commits
       ELSE recent_commits' = <<>> /\ UNCHANGED returned
    /\ UNCHANGED <<callerFrame, pulls_taken, recent_prs, file_analyses, aggregate>>

\* for commit in commits: commit_count += 1; if commit_count > max_commits: break
NextCommitControl ==
    /\ pc = "commits:next"
    /\ IF HasCommitAfter(commits, commit_count)
       THEN /\ commit_count' = commit_count + 1
            /\ pc' = IF commit_count' > max_commits THEN "commits:done" ELSE "commits:list"
       ELSE /\ pc' = "commits:done"
            /\ UNCHANGED commit_count
    /\ UNCHANGED file_list

\* ... file_analyses = []; after the loop, return recent_commits
NextCommit ==
    /\ NextCommitControl
    /\ IF pc' = "commits:done"
       THEN returned' = recent_commits /\ UNCHANGED file_analyses
       ELSE file_analyses' = <<>> /\ UNCHANGED returned
    /\ UNCHANGED <<callerFrame, pulls_taken, recent_prs, recent_commits, aggregate>>

\* if commit.files: file_list = list(commit.files)[:3]; reading commit.files
\* may raise, and the except clause skips the loop
ListCommitFilesControl ==
    /\ pc = "commits:list"
    /\ LET commit == CommitAt(commits, commit_count)
       IN  IF commit.listing # "ok"
           THEN file_list' = <<>> /\ pc' = "commits:risk"
           ELSE IF Truthy(commit.files)
           THEN file_list' = first_files(commit.files) /\ pc' = "commits:files"
           ELSE file_list' = <<>> /\ pc' = "commits:risk"
    /\ UNCHANGED commit_count

ListCommitFiles ==
    /\ ListCommitFilesControl
    /\ UNCHANGED <<callerFrame, pulls_taken, recent_prs, recent_commits,
                   returned, file_analyses, aggregate>>

\* for file in file_list: the next file, or the end of the loop when none
\* is left or when reading the file raises (the except clause)
AnalyzeCommitFileControl ==
    /\ pc = "commits:files"
    /\ IF files_exhausted(file_list, file_analyses) \/ Head(file_list).raises
       THEN pc' = "commits:risk" /\ file_list' = <<>>
       ELSE file_list' = Tail(file_list) /\ UNCHANGED pc
    /\ UNCHANGED commit_count

\* file_analyses.append(analyze_file_diff(file.filename, file.patch))
AnalyzeCommitFile ==
    /\ AnalyzeCommitFileControl
    /\ IF pc' = "commits:risk"
       THEN UNCHANGED file_analyses
       ELSE file_analyses' = Append(file_analyses,
                                    analyze_file_diff(Head(file_list).filename,
                                                      Head(file_list).patch))
    /\ UNCHANGED <<callerFrame, pulls_taken, recent_prs, recent_commits,
                   returned, aggregate>>

CommitRiskControl ==
    /\ pc = "commits:risk"
    /\ pc' = "commits:quality"
    /\ UNCHANGED <<commit_count, file_list>>

\* overall_risk = calculate_pr_risk(file_analyses)
CommitRisk ==
    /\ CommitRiskControl
    /\ aggregate' = [overall_risk |-> calculate_pr_risk(file_analyses)]
    /\ UNCHANGED <<callerFrame, pulls_taken, recent_prs, recent_commits,
                   returned, file_analyses>>

CommitQualityControl ==
    /\ pc = "commits:quality"
    /\ pc' = "commits:record"
    /\ UNCHANGED <<commit_count, file_list>>

\* quality_metrics = calculate_code_quality_metrics(file_analyses)
CommitQuality ==
    /\ CommitQualityControl
    /\ aggregate' = [overall_risk |-> aggregate.overall_risk,
                     quality_metrics |-> calculate_code_quality_metrics(file_analyses)]
    /\ UNCHANGED <<callerFrame, pulls_taken, recent_prs, recent_commits,
                   returned, file_analyses>>

\* building the record reads commit.files for 'files_changed': when every
\* read of it raises, the outer except clause returns []
AppendCommitControl ==
    /\ pc = "commits:record"
    /\ pc' = IF CommitAt(commits, commit_count).listing = "raises"
             THEN "commits:done" ELSE "commits:next"
    /\ UNCHANGED <<commit_count, file_list>>

\* recent_commits.append({...})
AppendCommit ==
    /\ AppendCommitControl
    /\ IF pc' = "commits:done"
       THEN returned' = <<>> /\ UNCHANGED recent_commits
       ELSE /\ recent_commits' = Append(recent_commits,
                   [sha |-> commit_count,
                    file_analyses |-> file_analyses,
                    overall_risk |-> aggregate.overall_risk,
                    change_summary |-> generate_pr_summary(file_analyses),
                    quality_metrics |-> aggregate.quality_metrics,
                    quality_report |-> generate_quality_report(aggregate.quality_metrics)])
            /\ UNCHANGED returned
    /\ UNCHANGED <<callerFrame, pulls_taken, recent_prs, file_analyses, aggregate>>

\* The control of the steps of get_recent_github_commits.
CommitsControl ==
    \/ CallCommitsControl \/ NextCommitControl \/ ListCommitFilesControl
    \/ AnalyzeCommitFileControl \/ CommitRiskControl \/ CommitQualityControl
    \/ AppendCommitControl

\* get_recent_github_merged_prs up to the loop
CallMergedPrs ==
    /\ pc = "prs:call"
    /\ \E repository_known \in BOOLEAN :
          IF github_client = None \/ ~repository_known
          THEN /\ returned' = <<>>
               /\ pc' = "prs:done"
               /\ UNCHANGED <<recent_prs, pulls_taken>>
          ELSE /\ recent_prs' = <<>>
               /\ pulls_taken' = 0
               /\ pc' = "prs:next"
               /\ UNCHANGED returned
    /\ UNCHANGED <<callerFrame, commit_count, recent_commits, file_list, file_analyses,
                   aggregate>>

\* for pr in pulls: if merged in the window ... elif pr.updated_at < since_time: break
NextPull ==
    /\ pc = "prs:next"
    /\ IF pulls_taken < Len(pulls.items)
       THEN LET pr == pulls.items[pulls_taken + 1]
            IN  /\ pulls_taken' = pulls_taken + 1
                /\ IF merged_in_window(pr)
                   THEN /\ file_analyses' = <<>>
                        /\ file_list' = pr.files
                        /\ pc' = "prs:files"
                        /\ UNCHANGED returned
                   ELSE IF stops_scan(pr)
                   THEN /\ returned' = recent_prs
                        /\ pc' = "prs:done"
                        /\ UNCHANGED <<file_analyses, file_list>>
                   ELSE UNCHANGED <<pc, returned, file_analyses, file_list>>
       ELSE /\ returned' = IF pulls.raises THEN <<>> ELSE recent_prs
            /\ pc' = "prs:done"
            /\ UNCHANGED <<pulls_taken, file_analyses, file_list>>
    /\ UNCHANGED <<callerFrame, recent_prs, commit_count, recent_commits, aggregate>>

\* for file in files: file_analyses.append(analyze_file_diff(...)), and the
\* except clause that ends the loop when fetching the files raises
AnalyzePullFile ==
    /\ pc = "prs:files"
    /\ IF files_exhausted(file_list, file_analyses) \/ Head(file_list).raises
       THEN pc' = "prs:risk" /\ file_list' = <<>> /\ UNCHANGED file_analyses
       ELSE /\ file_analyses' = Append(file_analyses,
                                       analyze_file_diff(Head(file_list).filename,
                                                         Head(file_list).patch))
            /\ file_list' = Tail(file_list)
            /\ UNCHANGED pc
    /\ UNCHANGED <<callerFrame, pulls_taken, recent_prs, commit_count, recent_commits,
                   returned, aggregate>>

\* overall_risk = calculate_pr_risk(file_analyses)
PullRisk ==
    /\ pc = "prs:risk"
    /\ aggregate' = [overall_risk |-> calculate_pr_risk(file_analyses)]
    /\ pc' = "prs:quality"
    /\ UNCHANGED <<callerFrame, pulls_taken, recent_prs, commit_count, recent_commits,
                   file_list, returned, file_analyses>>

\* quality_metrics = calculate_code_quality_metrics(file_analyses)
PullQuality ==
    /\ pc = "prs:quality"
    /\ aggregate' = [overall_risk |-> aggregate.overall_risk,
                     quality_metrics |-> calculate_code_quality_metrics(file_analyses)]
    /\ pc' = "prs:record"
    /\ UNCHANGED <<callerFrame, pulls_taken, recent_prs, commit_count, recent_commits,
                   file_list, returned, file_analyses>>

\* recent_prs.append({...})
AppendPull ==
    /\ pc = "prs:record"
    /\ recent_prs' = Append(recent_prs,
           [number |-> pulls.items[pulls_taken].number,
            merged_at |-> pulls.items[pulls_taken].merged_at,
            file_analyses |-> file_analyses,
            overall_risk |-> aggregate.overall_risk,
            change_summary |-> generate_pr_summary(file_analyses),
            quality_metrics |-> aggregate.quality_metrics,
            quality_report |-> generate_quality_report(aggregate.quality_metrics)])
    /\ pc' = "prs:next"
    /\ UNCHANGED <<callerFrame, pulls_taken, commit_count, recent_commits, file_list,
                   returned, file_analyses, aggregate>>

NextCommits ==
    \/ CallCommits \/ NextCommit \/ ListCommitFiles \/ AnalyzeCommitFile
    \/ CommitRisk \/ CommitQuality \/ AppendCommit

NextCallers ==
    \/ CallCommits \/ NextCommit \/ ListCommitFiles \/ AnalyzeCommitFile
    \/ CommitRisk \/ CommitQuality \/ AppendCommit
    \/ CallMergedPrs \/ NextPull \/ AnalyzePullFile
    \/ PullRisk \/ PullQuality \/ AppendPull

SpecCallers == InitCallers /\ [][NextCallers]_vars

\* get_recent_github_commits alone, under the fairness of a sequential
\* program: the interpreter does not stop in the middle of the function,
\* a step of its control that can be taken is taken in the end.
FairSpecCommits ==
    InitCommits /\ [][NextCommits]_vars /\ WF_commitsControl(CommitsControl)

(***************************************************************************)
(* Claims about analyze_file_diff (SpecFile).                              *)
(***************************************************************************)
SignalKeys == {"lines_added", "lines_removed", "functions_added", "functions_modified",
               "imports_added", "imports_removed", "config_changes", "critical_patterns"}

\* C1: for every filename, analyze_file_diff called with an empty or absent
\* patch returns risk_level 'low' and records no signal: no added or removed
\* line, function, import, config change or critical pattern.
C1_EmptyPatchIsLowAndSilent ==
    (pc = "file:done" /\ (patch = None \/ patch = <<>>)) =>
        /\ analysis.risk_level = "low"
        /\ \A k \in SignalKeys : Get(analysis.changes, k, <<>>) = <<>>

\* The empty text was analysed for a file whose type and name score 2 + 2.
C1_Witness ==
    /\ pc = "file:done"
    /\ patch = <<>>
    /\ filename = fn_Dockerfile
    /\ analysis.file_type = "docker"

\* The lines of the patch text that start with '+' or '-' but not with '+++' or '---'.
ChangeLinesOf(p) ==
    IF p = None THEN {}
    ELSE LET lines == Split(p, "\n")
         IN  {i \in DOMAIN lines :
                 \/ StartsWith(lines[i], <<"+">>) /\ ~StartsWith(lines[i], str_plus3)
                 \/ StartsWith(lines[i], <<"-">>) /\ ~StartsWith(lines[i], str_minus3)}

\* C2: after analyze_file_diff, len(lines_added) + len(lines_removed) equals the
\* number of patch lines that start with '+' or '-' but not with '+++' or '---';
\* no hunk header, context line or backslash marker line is recorded.
C2_CountsChangeLines ==
    pc = "file:done" =>
        LET added == Get(analysis.changes, "lines_added", <<>>)
            removed == Get(analysis.changes, "lines_removed", <<>>)
            lines == IF patch = None THEN <<>> ELSE Split(patch, "\n")
        IN  /\ Len(added) + Len(removed) = Cardinality(ChangeLinesOf(patch))
            /\ \A i \in DOMAIN added : \E j \in ChangeLinesOf(patch) :
                   lines[j] = <<"+">> \o added[i].content
            /\ \A i \in DOMAIN removed : \E j \in ChangeLinesOf(patch) :
                   lines[j] = <<"-">> \o removed[i].content

\* A file marker and an added line in one patch: one line recorded, one not.
C2_Witness ==
    /\ pc = "file:done"
    /\ patch = Join(<<ln_file_new, ln_add_plain>>, <<"\n">>)
    /\ Len(analysis.changes.lines_added) = 1


(***************************************************************************)
(* Claims about assess_change_risk (SpecRisk).                             *)
(***************************************************************************)
HighRiskNames ==
    {str_dockerfile, str_docker_compose, str_requirements_txt, str_package_json,
     str_makefile, str_dot_env, str_config, str_settings}

\* The additive score as the claim states it, of the arguments of the call.
C3_Score ==
      (IF file_type_in \in {"config", "yaml", "json", "docker", "terraform"} THEN 2 ELSE 0)
    + (IF \E w \in HighRiskNames : Contains(Lower(filename), w) THEN 2 ELSE 0)
    + (IF changes_in.functions_added # <<>> \/ changes_in.functions_modified # <<>>
       THEN 1 ELSE 0)
    + (IF changes_in.imports_added # <<>> \/ changes_in.imports_removed # <<>>
       THEN 1 ELSE 0)
    + (IF changes_in.critical_patterns # <<>> THEN 3 ELSE 0)
    + (IF changes_in.config_changes # <<>> THEN 2 ELSE 0)

\* C3: assess_change_risk returns the tier of the additive score (+2 type,
\* +2 file name, +1 functions, +1 imports, +3 critical patterns, +2 config
\* changes): 'high' iff score >= 5, 'medium' iff 3 <= score < 5, else 'low'.
C3_RiskIsTierOfScore ==
    pc = "risk:done" =>
        /\ risk_out = "high" <=> C3_Score >= 5
        /\ risk_out = "medium" <=> (C3_Score >= 3 /\ C3_Score < 5)
        /\ risk_out = "low" <=> C3_Score < 3

\* A score of exactly 5: type, functions and config changes, nothing else.
C3_Witness ==
    /\ pc = "risk:done"
    /\ file_type_in = "yaml" /\ filename = fn_utils_py
    /\ changes_in.functions_added # <<>> /\ changes_in.config_changes # <<>>
    /\ changes_in.imports_added = <<>> /\ changes_in.imports_removed = <<>>
    /\ changes_in.critical_patterns = <<>>
    /\ risk_out = "high"

(***************************************************************************)
(* Claims about calculate_pr_risk (SpecPR).                                *)
(***************************************************************************)
\* low=1, medium=3, high=5; a missing or unrecognised level counts as low
C4_Weight(a) ==
    IF "risk_level" \in DOMAIN a /\ a.risk_level = "high" THEN 5
    ELSE IF "risk_level" \in DOMAIN a /\ a.risk_level = "medium" THEN 3
    ELSE 1

C4_Sum == SumSeq([i \in DOMAIN risk_in |-> C4_Weight(risk_in[i])])

\* C4: on a non-empty list calculate_pr_risk returns 'high' iff the average
\* weight is >= 4, 'medium' iff it is >= 2 and < 4, and 'low' otherwise; an
\* empty list gives 'low'.
C4_PrRiskIsTierOfAverage ==
    pc = "pr:done" =>
        IF risk_in = <<>> THEN pr_risk_out = "low"
        ELSE /\ pr_risk_out = "high" <=> C4_Sum >= 4 * Len(risk_in)
             /\ pr_risk_out = "medium" <=>
                    (C4_Sum >= 2 * Len(risk_in) /\ C4_Sum < 4 * Len(risk_in))
             /\ pr_risk_out = "low" <=> C4_Sum < 2 * Len(risk_in)

\* An average of exactly 2 that rests on a missing and an unrecognised level.
C4_Witness ==
    /\ pc = "pr:done"
    /\ risk_in = <<[risk_level |-> "high"], [filename |-> fn_LICENSE],
                   [risk_level |-> "critical"], [risk_level |-> "low"]>>
    /\ pr_risk_out = "medium"

Rank(level) == IF level = "high" THEN 2 ELSE IF level = "medium" THEN 1 ELSE 0

\* C5: appending a duplicate of a high-risk file analysis of the list never
\* lowers the overall risk (low < medium < high).
C5_DuplicateHighNeverLowers ==
    [][(pc = "pr:done" /\ risk_in' # risk_in) => Rank(pr_risk_out') >= Rank(pr_risk_out)]_vars

\* A list rated below 'high' was extended by a duplicate of its high-risk record.
C5_Witness ==
    /\ pc = "pr:done"
    /\ Len(risk_in) = MaxRiskFiles + 1
    /\ risk_in[Len(risk_in)].risk_level = "high"
    /\ pr_risk_out = "medium"


(***************************************************************************)
(* Claims about the change-set aggregate (Spec).                           *)
(***************************************************************************)
\* C6: for the empty change set the aggregate is overall risk 'low', a
\* change summary that reports no change, and the best-case quality metrics:
\* complexity 0, maintainability 100, security risk 0, dependency,
\* breaking-change and performance 'low'.
C6_EmptyChangeSetBestCase ==
    (pc = "aggregated" /\ file_analyses = <<>>) =>
        /\ aggregate.overall_risk = "low"
        /\ \A i \in DOMAIN aggregate.change_summary :
               aggregate.change_summary[i].counts = <<>>
        /\ aggregate.quality_metrics.complexity_score = 0
        /\ aggregate.quality_metrics.maintainability_score = 100
        /\ aggregate.quality_metrics.security_risk_score = 0
        /\ aggregate.quality_metrics.dependency_risk = "low"
        /\ aggregate.quality_metrics.breaking_change_risk = "low"
        /\ aggregate.quality_metrics.performance_impact = "low"

\* The signals the aggregate functions read, all absent from a record.
ZeroSignals(a) ==
    \A k \in {"functions_added", "functions_modified", "imports_added",
              "imports_removed", "config_changes", "critical_patterns"} :
        Get(a.changes, k, <<>>) = <<>>

AllZeroSignals ==
    /\ pc = "aggregated"
    /\ file_analyses # <<>>
    /\ \A i \in DOMAIN file_analyses : ZeroSignals(file_analyses[i])

ConfigLike(a) ==
    a.file_type \in {"config", "yaml", "json"} \/ Contains(Lower(a.filename), str_config)

PerformanceLike(a) ==
    \/ a.file_type \in {"config", "sql", "docker"}
    \/ Contains(Lower(a.filename), str_performance)
    \/ Contains(Lower(a.filename), str_cache)

MaxExtraPatterns == 2

ExtraPattern == [pattern |-> critical_patterns[1].pattern,
                 line |-> str_token, type |-> "added"]

\* The record a with k further entries in its critical_patterns list.
WithMorePatterns(a, k) ==
    LET extra == [j \in 1..k |-> ExtraPattern]
        had == Get(a.changes, "critical_patterns", <<>>)
    IN  [a EXCEPT !.changes =
            [key \in DOMAIN a.changes \cup {"critical_patterns"} |->
                IF key = "critical_patterns" THEN had \o extra ELSE a.changes[key]]]

\* C8: adding critical-pattern entries to one record of the change set (the
\* number of files unchanged) never lowers security_risk_score.
C8_MorePatternsNeverLowerSecurity ==
    pc = "aggregated" =>
        \A i \in DOMAIN file_analyses : \A k \in 1..MaxExtraPatterns :
            calculate_code_quality_metrics(
                [file_analyses EXCEPT ![i] = WithMorePatterns(@, k)]).security_risk_score
            >= aggregate.quality_metrics.security_risk_score

\* One pattern in two files scores 25; one more entry raises the score to 50.
C8_Witness ==
    /\ pc = "aggregated"
    /\ Len(file_analyses) = 2
    /\ aggregate.quality_metrics.security_risk_score = 25
    /\ calculate_code_quality_metrics(
           [file_analyses EXCEPT ![2] = WithMorePatterns(@, 1)]).security_risk_score = 50

\* The records analyze_file_diff returns for config-like and dependency files.
ConfigOrDependencyRecords ==
    {a \in {analyze_file_diff(f.filename, f.patch) : f \in ChangeSetFiles} :
        ConfigLike(a) \/ a.file_type = "dependency"}

\* C9: appending one more record of a config-like or dependency file never
\* lowers dependency_risk or breaking_change_risk (low < medium < high).
C9_MoreConfigFilesNeverLowerRisk ==
    pc = "aggregated" =>
        \A a \in ConfigOrDependencyRecords :
            LET more == calculate_code_quality_metrics(Append(file_analyses, a))
            IN  /\ Rank(more.dependency_risk)
                       >= Rank(aggregate.quality_metrics.dependency_risk)
                /\ Rank(more.breaking_change_risk)
                       >= Rank(aggregate.quality_metrics.breaking_change_risk)

\* Two dependency manifests rate 'medium'; a third one raises the risk to 'high'.
C9_Witness ==
    /\ pc = "aggregated"
    /\ Len(file_analyses) = 2
    /\ \A i \in DOMAIN file_analyses : file_analyses[i].file_type = "dependency"
    /\ aggregate.quality_metrics.dependency_risk = "medium"
    /\ calculate_code_quality_metrics(
           Append(file_analyses, file_analyses[1])).dependency_risk = "high"

\* C10: complexity_score, maintainability_score and security_risk_score are
\* integers in 0..100 for every list of file analyses.
C10_ScoresWithinRange ==
    pc = "aggregated" =>
        /\ aggregate.quality_metrics.complexity_score \in 0..100
        /\ aggregate.quality_metrics.maintainability_score \in 0..100
        /\ aggregate.quality_metrics.security_risk_score \in 0..100

\* Six imports and four critical patterns per file: both densities exceed the cap.
C10_Witness ==
    /\ pc = "aggregated"
    /\ Len(file_analyses) = 2
    /\ LenOf(file_analyses[1].changes, "imports_added") = 6
    /\ LenOf(file_analyses[2].changes, "critical_patterns") = 4
    /\ aggregate.quality_metrics.complexity_score = 60
    /\ aggregate.quality_metrics.security_risk_score = 100


(***************************************************************************)
(* Claims about the record analyze_file_diff returns (SpecFile).           *)
(***************************************************************************)
FileAnalysisFields == {"filename", "file_type", "changes", "risk_level", "summary"}

\* C11: every record returned by analyze_file_diff, for an empty patch as
\* well as a non-empty one, carries the five fields filename, file type,
\* signals, risk level and summary.
C11_AllFiveFields ==
    pc = "file:done" => FileAnalysisFields \subseteq DOMAIN analysis

RiskLevels == {"low", "medium", "high"}

\* One of the four rules that precede the extension table applies to the name.
EarlierRuleMatches(fname) ==
    \/ Contains(Lower(fname), str_dockerfile)
    \/ Lower(fname) \in {str_makefile, str_makefile_am, str_makefile_in}
    \/ Lower(fname) \in {str_requirements_txt, str_package_json, str_cargo_toml, str_pom_xml}
    \/ Contains(Lower(fname), str_config)
    \/ Extension(fname) \in config_extensions

\* C12: for every filename and every patch (absent, empty, with malformed
\* hunk headers, of a file with an unrecognised extension) analyze_file_diff
\* returns an analysis record whose file type is a tag of the closed set;
\* a name that no name rule matches and whose extension is unmapped is
\* 'unknown'.
C12_AlwaysARecord ==
    pc = "file:done" =>
        /\ {"filename", "file_type", "changes", "risk_level"} \subseteq DOMAIN analysis
        /\ analysis.filename = filename
        /\ analysis.file_type \in FileTypes
        /\ analysis.risk_level \in RiskLevels
        /\ DOMAIN analysis.changes \in {{}, SignalKeys}
        /\ (~EarlierRuleMatches(filename) /\ Extension(filename) \notin DOMAIN type_mapping)
               => analysis.file_type = "unknown"

\* A malformed hunk header in the patch of a file without extension.
C12_Witness ==
    /\ pc = "file:done"
    /\ filename = fn_LICENSE
    /\ patch = Join(<<ln_hunk_bad, ln_add_plain>>, <<"\n">>)
    /\ analysis.file_type = "unknown"
    /\ Len(analysis.changes.lines_added) = 1


BaseName(fname) == LET parts == Split(fname, "/") IN parts[Len(parts)]

\* C14: a path whose lower-cased base name is makefile, makefile.am or
\* makefile.in is classified 'makefile', and one whose lower-cased base name
\* is requirements.txt, package.json, cargo.toml or pom.xml is classified
\* 'dependency', for any directory prefix, unless the name contains
\* 'dockerfile'.
C14_BaseNameDecides ==
    (pc = "file:done" /\ ~Contains(Lower(filename), str_dockerfile)) =>
        /\ Lower(BaseName(filename)) \in {str_makefile, str_makefile_am, str_makefile_in}
               => analysis.file_type = "makefile"
        /\ Lower(BaseName(filename))
               \in {str_requirements_txt, str_package_json, str_cargo_toml, str_pom_xml}
               => analysis.file_type = "dependency"

\* C15: a filename containing 'dockerfile' in any case is 'docker'; a
\* filename that the docker, makefile and dependency rules do not match and
\* that contains 'config' or has extension conf, cfg, ini or env is 'config',
\* whatever the extension table holds for its extension.
C15_FirstMatchWins ==
    pc = "file:done" =>
        LET low == Lower(filename)
        IN  /\ Contains(low, str_dockerfile) => analysis.file_type = "docker"
            /\ (/\ ~Contains(low, str_dockerfile)
                /\ low \notin {str_makefile, str_makefile_am, str_makefile_in}
                /\ low \notin {str_requirements_txt, str_package_json,
                                str_cargo_toml, str_pom_xml}
                /\ Contains(low, str_config) \/ Extension(filename) \in config_extensions)
                   => analysis.file_type = "config"

\* config.json is 'config' although the table maps json, and
\* config/Dockerfile is 'docker' although its name contains 'config'.
C15_Witness ==
    /\ pc = "file:done"
    /\ \/ filename = fn_config_json /\ analysis.file_type = "config"
          /\ type_mapping[Extension(filename)] = "json"
       \/ filename = fn_config_Dockerfile /\ analysis.file_type = "docker"
          /\ Contains(Lower(filename), str_config)


(***************************************************************************)
(* Claims about analyze_line_content (SpecFile: the signals of the record  *)
(* of a non-empty patch).                                                  *)
(***************************************************************************)
\* The call took the normal path: the patch is a non-empty text.
Walked == pc = "file:done" /\ patch # None /\ patch # <<>>

\* The entries of config_changes tagged with a change type, in order.
ConfigEntriesOf(change_type) ==
    SelectSeq(analysis.changes.config_changes, LAMBDA e : e.type = change_type)

\* C16: in a file of type yaml, json or config, config_changes holds one
\* entry per added line and one per removed line, tagged with the line's
\* change type and holding the stripped line, so its length is
\* len(lines_added) + len(lines_removed); in a file of any other type
\* config_changes is empty.
C16_ConfigChangesPerLine ==
    Walked =>
        LET changes == analysis.changes
            added == ConfigEntriesOf("added")
            removed == ConfigEntriesOf("removed")
        IN  IF analysis.file_type \in {"yaml", "json", "config"}
            THEN /\ Len(changes.config_changes)
                       = Len(changes.lines_added) + Len(changes.lines_removed)
                 /\ Len(added) = Len(changes.lines_added)
                 /\ Len(removed) = Len(changes.lines_removed)
                 /\ \A i \in DOMAIN added :
                        added[i].content = Strip(changes.lines_added[i].content)
                 /\ \A i \in DOMAIN removed :
                        removed[i].content = Strip(changes.lines_removed[i].content)
            ELSE changes.config_changes = <<>>

\* An added and a removed line in a yaml file.
C16_Witness ==
    /\ Walked
    /\ filename = fn_app_yaml
    /\ patch = Join(<<ln_add_env, ln_del_env>>, <<"\n">>)
    /\ Len(analysis.changes.config_changes) = 2
    /\ analysis.changes.config_changes[2].type = "removed"


\* The names of the functions that the 'def <identifier>(' lines among the
\* recorded lines define, in order.
DefNamesOf(recorded) ==
    LET defs == SelectSeq(recorded, LAMBDA e : MatchPyDef(Strip(e.content)))
    IN  [i \in DOMAIN defs |-> PyDefName(Strip(defs[i].content))]

\* C17: in a python file, every added line that matches 'def <identifier>('
\* puts the function's name into functions_added and every removed line that
\* matches it puts the name into functions_modified.
C17_EveryDefRecorded ==
    (Walked /\ analysis.file_type = "python") =>
        /\ analysis.changes.functions_added = DefNamesOf(analysis.changes.lines_added)
        /\ analysis.changes.functions_modified = DefNamesOf(analysis.changes.lines_removed)

\* The stripped recorded lines that start with 'import ' or 'require('.
JsImportsOf(recorded) ==
    LET stripped == [i \in DOMAIN recorded |-> Strip(recorded[i].content)]
    IN  SelectSeq(stripped, LAMBDA s : StartsWith(s, str_import_sp)
                                          \/ StartsWith(s, str_require_paren))

\* The stripped recorded lines of function-definition shape, cut to 50
\* characters plus an ellipsis when longer.
JsFunctionsOf(recorded) ==
    LET stripped == [i \in DOMAIN recorded |-> Strip(recorded[i].content)]
        shaped == SelectSeq(stripped, MatchJsFunction)
    IN  [i \in DOMAIN shaped |-> Truncate50(shaped[i])]

\* C18: in a javascript, typescript or react file, every added line of
\* function-definition shape is in functions_added (cut to 50 characters
\* plus an ellipsis when longer) and every line starting with 'import ' or
\* 'require(' is in the imports bucket of its change type.
C18_ReactLikeJavascript ==
    (Walked /\ analysis.file_type \in {"javascript", "typescript", "react"}) =>
        /\ analysis.changes.functions_added = JsFunctionsOf(analysis.changes.lines_added)
        /\ analysis.changes.imports_added = JsImportsOf(analysis.changes.lines_added)
        /\ analysis.changes.imports_removed = JsImportsOf(analysis.changes.lines_removed)


\* The stripped lines analyze_line_content was called with.
ProcessedLines ==
    {Strip(analysis.changes.lines_added[i].content) :
        i \in DOMAIN analysis.changes.lines_added}
    \cup {Strip(analysis.changes.lines_removed[i].content) :
             i \in DOMAIN analysis.changes.lines_removed}

\* The patterns that critical_patterns records for a stripped line.
PatternsRecordedFor(s) ==
    {analysis.changes.critical_patterns[k].pattern :
        k \in {k \in DOMAIN analysis.changes.critical_patterns :
                  analysis.changes.critical_patterns[k].line = s}}

\* C19: two processed lines that differ only in letter case have the same
\* set of critical patterns recorded, in files of every type.
C19_CaseInsensitivePatterns ==
    Walked =>
        \A a, b \in ProcessedLines :
            Lower(a) = Lower(b) => PatternsRecordedFor(a) = PatternsRecordedFor(b)

\* 'SUDO rm -rf' and 'sudo rm -rf' in one patch: both register.
C19_Witness ==
    /\ Walked
    /\ patch = Join(<<ln_add_SUDO, ln_add_sudo>>, <<"\n">>)
    /\ PatternsRecordedFor(Tail(ln_add_SUDO)) = {critical_patterns[3].pattern}
    /\ PatternsRecordedFor(Tail(ln_add_sudo)) = {critical_patterns[3].pattern}


(***************************************************************************)
(* Claims about the running line number of analyze_file_diff (SpecFile).   *)
(***************************************************************************)
PatchLinesOf == Split(patch, "\n")

IsHeader(line) == StartsWith(line, str_hunk)

\* The positions of a line where a '+' is followed by a digit.
PlusDigitAt(line) == {i \in 1..(Len(line) - 1) : line[i] = "+" /\ line[i + 1] \in DigitSet}

\* The first integer that follows a '+' in a line that has one.
FirstIntegerAfterPlus(line) ==
    LET i == CHOOSE i \in PlusDigitAt(line) : \A j \in PlusDigitAt(line) : i <= j
        last == CHOOSE e \in (i + 1)..Len(line) :
                    /\ \A d \in (i + 1)..e : line[d] \in DigitSet
                    /\ e = Len(line) \/ line[e + 1] \notin DigitSet
    IN  ParseInt(SubSeq(line, i + 1, last))

IsChangeLine(line, sign, marker) == StartsWith(line, <<sign>>) /\ ~StartsWith(line, marker)

\* A line that advances the running line number: an added line or any line
\* that is no header, no removed line and no backslash marker.
Advances(line) ==
    /\ ~IsHeader(line)
    /\ ~IsChangeLine(line, "-", str_minus3)
    /\ ~StartsWith(line, <<"\\">>)

\* The running line number when the line at position k of the patch is
\* reached: the integer of the last header with an integer before k (0 if
\* there is none) plus the advancing lines since.
RunningLineNumber(k) ==
    LET lines == PatchLinesOf
        headers == {j \in 1..(k - 1) : IsHeader(lines[j]) /\ PlusDigitAt(lines[j]) # {}}
        from == IF headers = {} THEN 0 ELSE CHOOSE j \in headers : \A h \in headers : j >= h
        base == IF from = 0 THEN 0 ELSE FirstIntegerAfterPlus(lines[from])
    IN  base + Cardinality({i \in (from + 1)..(k - 1) : Advances(lines[i])})

\* The positions of the patch lines with a sign that are no file marker, in order.
RECURSIVE PositionsOf(_, _, _)
PositionsOf(k, sign, marker) ==
    IF k > Len(PatchLinesOf) THEN <<>>
    ELSE (IF IsChangeLine(PatchLinesOf[k], sign, marker) /\ ~IsHeader(PatchLinesOf[k])
          THEN <<k>> ELSE <<>>) \o PositionsOf(k + 1, sign, marker)

\* C20: the running line number starts at 0; a line starting with '@@' sets
\* it to the first integer that follows a '+' in the line, and leaves it
\* unchanged when there is no such integer; a '@@' line is neither counted
\* nor analysed.  Every recorded line carries the running line number of
\* its position, and every signal entry stems from a recorded line.
C20_HunkHeaderSetsLineNumber ==
    Walked =>
        LET changes == analysis.changes
            added_at == PositionsOf(1, "+", str_plus3)
            removed_at == PositionsOf(1, "-", str_minus3)
        IN  /\ Len(changes.lines_added) = Len(added_at)
            /\ Len(changes.lines_removed) = Len(removed_at)
            /\ \A i \in DOMAIN added_at :
                   changes.lines_added[i].line_num = RunningLineNumber(added_at[i])
            /\ \A i \in DOMAIN removed_at :
                   changes.lines_removed[i].line_num = RunningLineNumber(removed_at[i])
            /\ \A i \in DOMAIN changes.critical_patterns :
                   changes.critical_patterns[i].line \in ProcessedLines
            /\ \A i \in DOMAIN changes.config_changes :
                   changes.config_changes[i].content \in ProcessedLines

\* A header with two integers after a '+' and the word sudo, then an added
\* line; and a header without an integer, then an added line.
C20_Witness ==
    /\ Walked
    /\ \/ /\ patch = Join(<<ln_hunk_sudo, ln_add_plain>>, <<"\n">>)
          /\ analysis.changes.lines_added[1].line_num = 3
          /\ analysis.changes.critical_patterns = <<>>
       \/ /\ patch = Join(<<ln_hunk_bad, ln_add_plain>>, <<"\n">>)
          /\ analysis.changes.lines_added[1].line_num = 0


(***************************************************************************)
(* Claims about calculate_pr_risk by the numbers of files per level        *)
(* (SpecPR).                                                               *)
(***************************************************************************)
\* Every record of the list carries one of the three levels analyze_file_diff assigns.
AllLevelled ==
    \A i \in DOMAIN risk_in :
        "risk_level" \in DOMAIN risk_in[i] /\ risk_in[i].risk_level \in RiskLevels

NumberAt(level) == Cardinality({i \in DOMAIN risk_in : risk_in[i].risk_level = level})

\* C27: with h high-risk, m medium-risk and l low-risk files (h + m + l > 0)
\* calculate_pr_risk returns 'high' exactly when h >= m + 3*l and 'low'
\* exactly when l > 3*h + m; the result lies between the lowest and the
\* highest per-file level, and a single file gets its own level.
C27_RiskByCounts ==
    (pc = "pr:done" /\ risk_in # <<>> /\ AllLevelled) =>
        LET h == NumberAt("high")
            m == NumberAt("medium")
            l == NumberAt("low")
        IN  /\ (pr_risk_out = "high") <=> (h >= m + 3 * l)
            /\ (pr_risk_out = "low") <=> (l > 3 * h + m)
            /\ \E i \in DOMAIN risk_in : Rank(pr_risk_out) <= Rank(risk_in[i].risk_level)
            /\ \E i \in DOMAIN risk_in : Rank(pr_risk_out) >= Rank(risk_in[i].risk_level)
            /\ Len(risk_in) = 1 => pr_risk_out = risk_in[1].risk_level

\* One high-risk file among four low-risk files: the change set is rated 'low'.
C27_Witness ==
    /\ pc = "pr:done"
    /\ AllLevelled
    /\ NumberAt("high") = 1 /\ NumberAt("low") = 4 /\ NumberAt("medium") = 0
    /\ pr_risk_out = "low"


(***************************************************************************)
(* Claims about the risk of docker files (SpecFile).                       *)
(***************************************************************************)
\* C28: a file classified 'docker' is rated 'medium' or 'high' for every
\* non-empty patch, also one without added or removed lines; it is rated
\* 'low' only for an empty or absent patch.
C28_DockerAtLeastMedium ==
    (pc = "file:done" /\ analysis.file_type = "docker") =>
        /\ Walked => analysis.risk_level \in {"medium", "high"}
        /\ analysis.risk_level = "low" => (patch = None \/ patch = <<>>)

\* A Dockerfile whose patch is one context line.
C28_Witness ==
    /\ Walked
    /\ filename = fn_Dockerfile
    /\ patch = ln_context
    /\ analysis.changes.lines_added = <<>> /\ analysis.changes.lines_removed = <<>>
    /\ analysis.risk_level = "medium"


NeutralValues ==
    ("Tests" :> {"none", "unknown"}) @@ ("Dependencies" :> {"low"}) @@
    ("Breaking changes" :> {"low"}) @@ ("Performance impact" :> {"low"})

\* The report's clauses with a given name.
ClausesNamed(name) ==
    SelectSeq(aggregate.quality_report, LAMBDA c : c.clause = name)

\* C23: the report starts with the complexity, maintainability and security
\* clauses, tiered at 70/40, 80/60 and 50/20; the tests, dependency,
\* breaking-change and performance clauses follow in that order, each
\* exactly when the metric's value is not its default or neutral one, so no
\* clause shows a neutral value.
C23_ReportClauses ==
    pc = "aggregated" =>
        LET metrics == aggregate.quality_metrics
            report == aggregate.quality_report
            optional == SubSeq(report, 4, Len(report))
            order == <<"Tests", "Dependencies", "Breaking changes", "Performance impact">>
        IN  /\ Len(report) >= 3
            /\ report[1] = [clause |-> "complexity", value |-> metrics.complexity_score,
                            level |-> IF metrics.complexity_score >= 70 THEN "High"
                                      ELSE IF metrics.complexity_score >= 40 THEN "Medium"
                                      ELSE "Low"]
            /\ report[2] = [clause |-> "maintainability",
                            value |-> metrics.maintainability_score,
                            level |-> IF metrics.maintainability_score >= 80 THEN "Good"
                                      ELSE IF metrics.maintainability_score >= 60 THEN "Fair"
                                      ELSE "Poor"]
            /\ report[3] = [clause |-> "security risk",
                            value |-> metrics.security_risk_score,
                            level |-> IF metrics.security_risk_score >= 50 THEN "High"
                                      ELSE IF metrics.security_risk_score >= 20 THEN "Medium"
                                      ELSE "Low"]
            /\ [i \in DOMAIN optional |-> optional[i].clause]
                   = SelectSeq(order, LAMBDA name : ClausesNamed(name) # <<>>)
            /\ ClausesNamed("Tests") # <<>>
                   <=> metrics.test_coverage_impact \notin NeutralValues["Tests"]
            /\ ClausesNamed("Dependencies") # <<>>
                   <=> metrics.dependency_risk \notin NeutralValues["Dependencies"]
            /\ ClausesNamed("Breaking changes") # <<>>
                   <=> metrics.breaking_change_risk \notin NeutralValues["Breaking changes"]
            /\ ClausesNamed("Performance impact") # <<>>
                   <=> metrics.performance_impact \notin NeutralValues["Performance impact"]
            /\ \A i \in DOMAIN optional :
                   optional[i].level \notin NeutralValues[optional[i].clause]


(***************************************************************************)
(* Claims about generate_pr_summary (SpecSummary).                         *)
(***************************************************************************)
\* The clauses of the summary in their fixed order.
ClauseOrder ==
    <<"{} files changed", "Types: {}", "{} high-risk files", "{} functions changed",
      "{} imports changed", "{} config files", "{} critical patterns">>

\* The number of entries the records of summary_in hold in the given buckets.
EntriesIn(keys) ==
    SumSeq([i \in DOMAIN summary_in |->
               SumSeq([k \in DOMAIN keys |-> Len(Get(summary_in[i].changes, keys[k], <<>>))])])

\* The number the clause with the given text reports, 0 when it is absent.
Reported(text) ==
    LET hits == SelectSeq(summary_out, LAMBDA c : c.text = text)
    IN  IF hits = <<>> THEN 0 ELSE hits[1].counts[1]

FilesOfType(ftype) == Cardinality({i \in DOMAIN summary_in : summary_in[i].file_type = ftype})

\* C22: for a non-empty change set the summary's clauses follow the fixed
\* order file count, top-3 file types, high-risk files, functions changed,
\* imports changed, config files, critical patterns; the file count and the
\* types are always there and each other clause exactly when its count is
\* not zero; the types clause lists at most three types with their counts,
\* most frequent first, and no type left out is more frequent than a listed one.
C22_SummaryClauses ==
    (pc = "summary:done" /\ summary_in # <<>>) =>
        LET texts == [i \in DOMAIN summary_out |-> summary_out[i].text]
            listed == SelectSeq(summary_out, LAMBDA c : c.text = "Types: {}")[1].types
            all_types == {summary_in[i].file_type : i \in DOMAIN summary_in}
        IN  /\ texts = SelectSeq(ClauseOrder,
                                 LAMBDA x : \E i \in DOMAIN texts : texts[i] = x)
            /\ texts[1] = "{} files changed" /\ texts[2] = "Types: {}"
            /\ Reported("{} files changed") = Len(summary_in)
            /\ Reported("{} high-risk files")
                   = Cardinality({i \in DOMAIN summary_in : summary_in[i].risk_level = "high"})
            /\ Reported("{} functions changed")
                   = EntriesIn(<<"functions_added", "functions_modified">>)
            /\ Reported("{} imports changed")
                   = EntriesIn(<<"imports_added", "imports_removed">>)
            /\ Reported("{} config files")
                   = Cardinality({i \in DOMAIN summary_in :
                                     \/ summary_in[i].file_type \in {"config", "yaml", "json"}
                                     \/ Contains(Lower(summary_in[i].filename), str_config)})
            /\ Reported("{} critical patterns") = EntriesIn(<<"critical_patterns">>)
            /\ \A i \in DOMAIN summary_out :
                   "counts" \in DOMAIN summary_out[i] => summary_out[i].counts[1] # 0
            /\ Len(listed) = (IF Cardinality(all_types) < 3 THEN Cardinality(all_types) ELSE 3)
            /\ \A i \in DOMAIN listed : listed[i].count = FilesOfType(listed[i].ftype)
            /\ \A i, j \in DOMAIN listed :
                   /\ i < j => listed[i].count >= listed[j].count
                   /\ i # j => listed[i].ftype # listed[j].ftype
            /\ \A ft \in all_types :
                   (\A i \in DOMAIN listed : listed[i].ftype # ft) =>
                       \A i \in DOMAIN listed : listed[i].count >= FilesOfType(ft)

\* Four files of four types, of which the summary lists three, with every
\* count above zero.
C22_Witness ==
    /\ pc = "summary:done"
    /\ Len(summary_in) = 4
    /\ Len(summary_out) = 7
    /\ Cardinality({summary_in[i].file_type : i \in DOMAIN summary_in}) = 4


(***************************************************************************)
(* Claims about the loop of analyze_file_diff step by step (SpecWalk).     *)
(***************************************************************************)
\* The position in the patch of the line the loop visits next.
WalkPosition == Len(PatchLinesOf) - Len(loop_lines) + 1

\* The added lines recorded since the last header before the line in hand.
AddedSinceHeader ==
    LET headers == {j \in 1..(WalkPosition - 1) : IsHeader(PatchLinesOf[j])}
        from == IF headers = {} THEN 0 ELSE CHOOSE j \in headers : \A h \in headers : j >= h
    IN  Cardinality({i \in (from + 1)..(WalkPosition - 1) :
                        IsChangeLine(PatchLinesOf[i], "+", str_plus3)})

\* The step of the loop on the line in hand, case by case.
StepAsClaimed ==
    LET line == Head(loop_lines)
        added == loop_changes.lines_added
        removed == loop_changes.lines_removed
    IN  IF IsHeader(line)
        THEN /\ loop_changes' = loop_changes
             /\ loop_line_num' = (IF PlusDigitAt(line) # {} THEN FirstIntegerAfterPlus(line)
                                  ELSE loop_line_num)
        ELSE IF IsChangeLine(line, "+", str_plus3)
        THEN /\ loop_changes'.lines_added
                    = Append(added, [line_num |-> loop_line_num, content |-> Tail(line)])
             /\ loop_changes'.lines_removed = removed
             /\ loop_line_num' = loop_line_num + 1
             /\ loop_line_num = RunningLineNumber(WalkPosition)
             /\ \A i \in (Len(added) - AddedSinceHeader + 1)..Len(added) :
                    added[i].line_num < loop_line_num
        ELSE IF IsChangeLine(line, "-", str_minus3)
        THEN /\ loop_changes'.lines_removed
                    = Append(removed, [line_num |-> loop_line_num, content |-> Tail(line)])
             /\ loop_changes'.lines_added = added
             /\ loop_line_num' = loop_line_num
        ELSE IF StartsWith(line, <<"\\">>)
        THEN loop_changes' = loop_changes /\ loop_line_num' = loop_line_num
        ELSE loop_changes' = loop_changes /\ loop_line_num' = loop_line_num + 1

\* C21: an added line is recorded with the running line number (the start
\* the last header gave plus the added and context lines since) and advances
\* it by one; a removed line is recorded with it and leaves it; a backslash
\* line changes nothing; any other line advances it by one and records
\* nothing; the line numbers of the added lines of a hunk increase strictly.
C21_LineNumbering ==
    [][(pc = "walk:loop" /\ loop_lines # <<>>) => StepAsClaimed]_vars

\* Header with start 5, added line, context line, added line: recorded at 5 and 7.
C21_Witness ==
    /\ pc = "walk:done"
    /\ patch = Join(<<ln_hunk, ln_add_plain, ln_context, ln_add_plain>>, <<"\n">>)
    /\ Len(analysis.changes.lines_added) = 2
    /\ analysis.changes.lines_added[1].line_num = 5
    /\ analysis.changes.lines_added[2].line_num = 7


(***************************************************************************)
(* Claims about the client functions (SpecClient).                         *)
(***************************************************************************)
\* The successful calls of init_github_client before call i.
InitsBefore(i) ==
    {j \in 1..(i - 1) : client_calls[j].call = "init" /\ client_calls[j].outcome = "returned"}

\* The last successful init before call i, 0 when there is none.
LastInitBefore(i) ==
    IF InitsBefore(i) = {} THEN 0
    ELSE CHOOSE j \in InitsBefore(i) : \A k \in InitsBefore(i) : j >= k

\* A client is installed when call i is made: the last successful init
\* before it has not been followed by a close.
InstalledAt(i) ==
    /\ LastInitBefore(i) # 0
    /\ \A j \in (LastInitBefore(i) + 1)..(i - 1) : client_calls[j].call # "close"

\* The value of the global before call i.
ClientBefore(i) == IF i = 1 THEN None ELSE client_calls[i - 1].client_after

\* C29: get_github_client returns the client of the most recent successful
\* init when no close has followed that init, and raises RuntimeError
\* otherwise; init_github_client with an empty or absent token raises
\* ValueError and leaves the global as it was; an init whose connection
\* test fails still installs its client.
C29_ClientLifecycle ==
    \A i \in DOMAIN client_calls :
        LET c == client_calls[i]
        IN  /\ c.call = "get" =>
                   IF InstalledAt(i)
                   THEN /\ c.outcome = "returned"
                        /\ c.result = client_calls[LastInitBefore(i)].client_after
                        /\ c.result # None
                   ELSE c.outcome = "RuntimeError"
            /\ c.call = "init" =>
                   IF c.token = None \/ c.token = <<>>
                   THEN c.outcome = "ValueError" /\ c.client_after = ClientBefore(i)
                   ELSE /\ c.outcome = "returned"
                        /\ c.client_after # None
                        /\ c.client_after # ClientBefore(i)

\* An init whose connection test fails, a get that returns its client, a
\* close, and a get that raises.
C29_Witness ==
    /\ Len(client_calls) = 4
    /\ client_calls[1].call = "init" /\ ~client_calls[1].connects
    /\ client_calls[2].call = "get" /\ client_calls[2].outcome = "returned"
    /\ client_calls[3].call = "close"
    /\ client_calls[4].call = "get" /\ client_calls[4].outcome = "RuntimeError"


(***************************************************************************)
(* Claims about the callers (SpecCallers, FairSpecCallers).                *)
(***************************************************************************)
\* The files before the first one whose reading raises.
ReadableIn(file_seq) ==
    LET ok == {n \in 0..Len(file_seq) : \A j \in 1..n : ~file_seq[j].raises}
    IN  SubSeq(file_seq, 1, CHOOSE n \in ok : \A m \in ok : n >= m)

AnalysesOf(file_seq) ==
    [i \in 1..Len(file_seq) |-> analyze_file_diff(file_seq[i].filename, file_seq[i].patch)]

\* The files of a commit that get analysed: of its first three, those
\* before the first that raises; none when reading the list raises.
CommitFilesAnalysed(commit) ==
    IF commit.listing # "ok" THEN <<>>
    ELSE ReadableIn(SubSeq(commit.files, 1, IF Len(commit.files) < 3 THEN Len(commit.files) ELSE 3))

\* The files of a pull request that get analysed.
PullFilesAnalysed(pr) == ReadableIn(pr.files)

\* The aggregates of a record are those of its list of file analyses.
AggregatedOver(record, analyses) ==
    /\ record.overall_risk = calculate_pr_risk(analyses)
    /\ record.quality_metrics = calculate_code_quality_metrics(analyses)
    /\ record.change_summary = generate_pr_summary(analyses)
    /\ record.quality_report = generate_quality_report(calculate_code_quality_metrics(analyses))

\* C24: when the aggregation of a commit or pull request starts, the
\* per-file analysis of all its files is over (all the files the loop
\* visits, up to the one whose fetch fails), each aggregate is computed
\* over that final list, and every record holds that list and its
\* aggregates.
C24_AggregationAfterAllFiles ==
    /\ pc \in {"commits:risk", "commits:quality", "commits:record"} =>
           file_analyses = AnalysesOf(CommitFilesAnalysed(CommitAt(commits, commit_count)))
    /\ pc \in {"prs:risk", "prs:quality", "prs:record"} =>
           file_analyses = AnalysesOf(PullFilesAnalysed(pulls.items[pulls_taken]))
    /\ pc \in {"commits:quality", "commits:record", "prs:quality", "prs:record"} =>
           aggregate.overall_risk = calculate_pr_risk(file_analyses)
    /\ pc \in {"commits:record", "prs:record"} =>
           aggregate.quality_metrics = calculate_code_quality_metrics(file_analyses)
    /\ \A i \in DOMAIN recent_commits :
           LET r == recent_commits[i]
           IN  /\ r.file_analyses = AnalysesOf(CommitFilesAnalysed(CommitAt(commits, r.sha)))
               /\ AggregatedOver(r, r.file_analyses)
    /\ \A i \in DOMAIN recent_prs :
           LET r == recent_prs[i]
           IN  /\ r.file_analyses = AnalysesOf(PullFilesAnalysed(pulls.items[r.number]))
               /\ AggregatedOver(r, r.file_analyses)

\* A commit of four files recorded with three analyses, and after it a
\* commit whose second file raises recorded with one.
C24_Witness ==
    /\ pc = "commits:next"
    /\ Len(recent_commits) = 3
    /\ CommitAt(commits, 2) = commit_four_files
    /\ Len(recent_commits[2].file_analyses) = 3
    /\ CommitAt(commits, 3) = commit_second_raises
    /\ Len(recent_commits[3].file_analyses) = 1

\* C25: get_recent_github_commits returns, whatever the length of the
\* stream; it returns at most 10 records, those of the first commits in
\* order, each with at most 3 file analyses, which are those of the first
\* 3 files of the commit in order (up to the one that raises).
C25_BoundedCommits ==
    /\ (pc = "commits:call") ~> (pc = "commits:done")
    /\ [](pc = "commits:done" =>
            /\ Len(returned) <= 10
            /\ \A i \in DOMAIN returned :
                   /\ returned[i].sha = i
                   /\ Len(returned[i].file_analyses) <= 3
                   /\ returned[i].file_analyses =
                          AnalysesOf(CommitFilesAnalysed(CommitAt(commits, i))))

\* The stream that never ends, returned from with 10 records, one of them
\* with the 3 analyses of a commit of four files.
C25_Witness ==
    /\ pc = "commits:done"
    /\ commits.endless
    /\ Len(returned) = 10
    /\ commit_count = 11
    /\ Len(CommitAt(commits, 2).files) = 4
    /\ Len(returned[2].file_analyses) = 3

\* Pull request i is merged inside the window.
MergedInside(i) ==
    /\ pulls.items[i].merged_at # <<>>
    /\ pulls.items[i].merged_at[1] >= since_time

\* The pull requests at which the scan stops.
Stoppers ==
    {i \in DOMAIN pulls.items : ~MergedInside(i) /\ pulls.items[i].updated_at < since_time}

\* The first of them; past the end of the stream when there is none.
FirstStopper ==
    IF Stoppers = {} THEN Len(pulls.items) + 1
    ELSE CHOOSE i \in Stoppers : \A j \in Stoppers : i <= j

\* C30: every record of get_recent_github_merged_prs is of a pull request
\* merged inside the window, the records are in the order of the stream,
\* and none is of a pull request after the first one that is not merged
\* inside the window and was updated before it; the records returned by
\* the loop are those of all the pull requests merged inside the window
\* before that one.
C30_ScanStopsAtStalePull ==
    /\ pc \in {"prs:next", "prs:files", "prs:risk", "prs:quality", "prs:record", "prs:done"} =>
           /\ \A i \in DOMAIN recent_prs :
                  /\ MergedInside(recent_prs[i].number)
                  /\ recent_prs[i].number < FirstStopper
                  /\ \A j \in DOMAIN recent_prs : i < j => recent_prs[i].number < recent_prs[j].number
           /\ pulls_taken <= FirstStopper
    /\ pc = "prs:done" =>
           /\ \A i \in DOMAIN returned : returned[i] = recent_prs[i]
           /\ Len(returned) <= Len(recent_prs)
           /\ returned # <<>> =>
                  {returned[i].number : i \in DOMAIN returned} =
                      {i \in DOMAIN pulls.items : MergedInside(i) /\ i < FirstStopper}

\* A pull request merged inside the window, a stale one, and one merged
\* inside the window that the scan never reaches.
C30_Witness ==
    /\ pc = "prs:done"
    /\ Len(pulls.items) = 3
    /\ MergedInside(1) /\ FirstStopper = 2 /\ MergedInside(3)
    /\ pulls_taken = 2
    /\ Len(returned) = 1
    /\ returned[1].number = 1


=============================================================================
